---- MODULE Spec2Model ----
(***************************************************************************)
(* State-machine model of the concurrency core of unifyair-core:           *)
(*   - ContextQueue        (lightning-nf/omnipath/ngap/src/context_queue.rs)*)
(*   - TokenStore          (utils/client/src/token_store.rs)               *)
(*   - AppContext config   (lightning-nf/omnipath/app/src/context)         *)
(*   - NGAP engine         (lightning-nf/omnipath/app/src/ngap)            *)
(*   - Associations        (.../app/src/ngap/network/network.rs)           *)
(*   - ContextManager      (.../app/src/ngap/manager/context_manager.rs)   *)
(*   - NrfClient           (utils/client/src/nrf_client.rs)                *)
(*   - NfApp::run          (lightning-cli/src/nf_type.rs)                  *)
(*   - SBI/NGAP conversion (.../app/src/ngap/core/utils/convert)           *)
(*   - run_ngap_loop       (.../app/src/ngap/context/ngap_context.rs)      *)
(*   - get_token           (utils/client/src/nrf_client.rs)                *)
(*   - GMM state machine   (.../app/src/nas/gmm.rs)                        *)
(*   - resolve_ran_name    (.../app/src/ngap/core/utils.rs)                *)
(*   - NG setup and config (.../app/src/ngap/core/ng_setup.rs)             *)
(*   - AtomicReader        (utils/atomic-reader/src/lib.rs)                *)
(* Each component has its own variables, initial predicate, next-state     *)
(* relation and specification; a component's actions leave the variables   *)
(* of the other components unchanged.                                      *)
(***************************************************************************)
EXTENDS Integers, Sequences, FiniteSets, TLC

VARIABLES
    \* ---- ContextQueue ----
    cqQueue,      \* queue: VecDeque of pending futures (one per call)
    cqActive,     \* processor_active: AtomicBool
    cqMutex,      \* task holding the tokio Mutex around `queue`
    cqMutexWait,  \* FIFO of tasks waiting for that Mutex
    cqInner,      \* the context value T behind `inner` (a log of applied closures)
    cqWriter,     \* call holding the write lock on `inner`
    cqCall,       \* per call: position of its boxed future
    cqOut,        \* per call: the output its closure computed
    cqRes,        \* per call: content of the oneshot channel
    cqPc,         \* per caller task: position in schedule_and_wait
    cqN,          \* per caller task: number of calls already returned
    cqRet,        \* per caller task: the values schedule_and_wait returned
    cqProc,       \* per processor task: position in process_queue
    cqCur,        \* per processor task: the future it popped and awaits
    cqOrder,      \* history: calls in the order they were appended to the queue
    \* ---- TokenStore ----
    tsMap,        \* map: key -> Arc<TokenState> (id, state, value) or absent
    tsCounter,    \* TOKEN_COUNTER: AtomicU32
    tsSet,        \* per task calling set: position, key, id, future outcome, result
    tsGet,        \* per task calling get: position, key, the Notify it waits on, result
    \* ---- AppContext configuration ----
    cfgStore,     \* config: ArcSwap<Configuration>, the snapshot now published
    cfgW,         \* the task calling commit_config: position, cloned snapshot, commits returned
    cfgR,         \* per reading task: position, guard, fields read, history of the read
    \* ---- NGAP engine: associations and NG setup ----
    ngGnbs,       \* gnb_contexts: the registered GnbContexts
    ngA,          \* per association: position in start_ngap_processing and its locals
    ngWire,       \* per association: the PDUs written on its Tnla, in order
    ngReader,     \* per association: the task running run_ngap_loop
    ngRouted,     \* per association: number of messages a task was spawned for
    ngTasks,      \* per association: the spawned tasks that have a response to write
    ngCancelled,  \* the CancellationToken given to NgapContext::run is cancelled
    ngRun,        \* position of NgapContext::run
    ngBacklog,    \* connections waiting at the listener to be accepted
    \* ---- Initial UE Message handling inside one gNB ----
    ueQueues,     \* ue_context_manager.queues: the UeContexts of the gNB
    ueCounter,    \* amf_ue_id_generator: the value the next increment returns
    ueAlloc,      \* the AmfUeNgapIds handed out, in allocation order
    ueNas,        \* the NAS PDUs dispatched to UeContexts
    ueH,          \* per InitialUeMessage task: position and locals of handle_request
    \* ---- Associations registry of the SCTP network ----
    asMap,        \* associations: the Tnlas by id
    asSet,        \* associations_set: the (local, remote) pairs in use
    asCounter,    \* TNLA_ASSOCIATION_COUNTER: the value the next increment returns
    asLast,       \* the last registry call: its arguments, result and the registry before it
    \* ---- ContextManager ----
    cmMap,        \* queues: id -> the Arc<ContextQueue> stored under it (0: no entry)
    cmNextQ,      \* number of the next ContextQueue that an add_context stores
    cmPending,    \* per ContextQueue: closures scheduled on it and not finished
    cmN,          \* number of manager calls made
    cmT,          \* per calling task: the call it makes, its position, locals and result
    \* ---- NrfClient: registration with the NRF ----
    nrConfig,     \* nf_config: the NfConfig snapshot behind the ArcSwap
    nrCall,       \* the register_nf_instance call: position, arguments, response, result
    \* ---- NfApp::run: registration, start and deregistration ----
    appRun,       \* NfApp::run: position, the select! branch taken, the result
    appBlock,     \* the async block of run: register_nf then start
    appSignal,    \* the spawned signal task: its position and the signal it got
    appLog,       \* history: the NfInstance methods in the order they were invoked
    \* ---- SBI / NGAP value conversions ----
    cvIn,         \* the SBI value handed to the conversion
    cvNgap,       \* its NGAP encoding, once converted
    cvOut,        \* the SBI value converted back from the encoding
    cvPc,         \* position: input, encoded, decoded
    \* ---- run_ngap_loop: the reader of an established association ----
    rdReader,     \* run_ngap_loop: reading or ended
    rdRead,       \* number of messages read so far
    rdTask,       \* per message read: the task spawned for it
    rdWire,       \* the PDUs written, in order: the Tnla, the message answered, the PDU
    \* ---- NrfClient::get_token and deregister_nf_instance ----
    gtDereg,      \* deregister_nf_instance: position, oauth_enabled, the state of the key at its start
    \* ---- GMM state machine of one UE (NasContext) ----
    gmState,      \* the state of the statig StateMachine<NasContext>
    gmRun,        \* the task driving the state machine: running or panicked
    gmNas,        \* NasContext: registration_request and ue_security_capabliity
    gmUe,         \* UeContext: the identity fields that hold Some value
    gmLast,       \* the last event handled and what became of it
    gmN,          \* number of events handled
    gmBuilt,      \* number of NasAuthenticationRequest::build calls
    \* ---- resolve_ran_name ----
    rnCall,       \* the call of resolve_ran_name: its arguments and the String returned
    rnN,          \* number of calls made
    \* ---- NG setup handler: its reads of the configuration ----
    snH,          \* the handler: position and, per field it uses, the snapshot its get_config loaded
    snN,          \* number of NG setups handled
    \* ---- ContextQueue: a closure that schedules again, two queues ----
    rqCaller,     \* per call: position of schedule_and_wait
    rqFut,        \* per call: position of the boxed future made by enqueue_and_get_result
    rqMutex,      \* per queue: the holder of the tokio Mutex around `queue`
    rqWait,       \* per queue: FIFO of those waiting for that Mutex
    rqWrite,      \* per queue: the call holding the write lock on `inner`
    rqActive,     \* per queue: processor_active
    rqItems,      \* per queue: the VecDeque of pending futures
    rqProc,       \* per queue: position of the process_queue task
    rqCur,        \* per queue: the future process_queue popped and awaits
    rqTarget,     \* the queue the nested call goes to (0: not issued)
    \* ---- AtomicReader ----
    arStatus,     \* status: AtomicBool, true while a replace runs
    arData,       \* data: AtomicPtr<T>, the allocation it points to
    arCount,      \* per allocation: the strong count of its Arc
    arFreed,      \* per allocation: released
    arR,          \* per reading thread: position, the pointer loaded, the value returned
    arW,          \* the thread calling replace: position and the old pointer
    \* ---- commit_config called by two tasks ----
    ccStore,      \* config: ArcSwap<Configuration>, the snapshot now published
    ccW           \* per committing task: position, its new_config, commits returned

cqVars == <<cqQueue, cqActive, cqMutex, cqMutexWait, cqInner, cqWriter, cqCall,
            cqOut, cqRes, cqPc, cqN, cqRet, cqProc, cqCur, cqOrder>>

tsVars == <<tsMap, tsCounter, tsSet, tsGet>>

cfgVars == <<cfgStore, cfgW, cfgR>>

ngVars == <<ngGnbs, ngA, ngWire, ngReader, ngRouted, ngTasks, ngCancelled, ngRun,
            ngBacklog>>

ueVars == <<ueQueues, ueCounter, ueAlloc, ueNas, ueH>>

asVars == <<asMap, asSet, asCounter, asLast>>

cmVars == <<cmMap, cmNextQ, cmPending, cmN, cmT>>

nrVars == <<nrConfig, nrCall>>

appVars == <<appRun, appBlock, appSignal, appLog>>

cvVars == <<cvIn, cvNgap, cvOut, cvPc>>

rdVars == <<rdReader, rdRead, rdTask, rdWire>>

gtVars == <<gtDereg>>

gmVars == <<gmState, gmRun, gmNas, gmUe, gmLast, gmN, gmBuilt>>

rnVars == <<rnCall, rnN>>

snVars == <<snH, snN>>

rqVars == <<rqCaller, rqFut, rqMutex, rqWait, rqWrite, rqActive, rqItems, rqProc, rqCur, rqTarget>>

arVars == <<arStatus, arData, arCount, arFreed, arR, arW>>

ccVars == <<ccStore, ccW>>

vars == <<cqVars, tsVars, cfgVars, ngVars, ueVars, asVars, cmVars, nrVars, appVars, cvVars, rdVars, gtVars, gmVars, rnVars, snVars, rqVars, arVars, ccVars>>

\* what the actions of one component leave alone
cqOthers == <<tsVars, cfgVars, ngVars, ueVars, asVars, cmVars, nrVars, appVars, cvVars, rdVars, gtVars, gmVars, rnVars, snVars, rqVars, arVars, ccVars>>
tsOthers == <<cqVars, cfgVars, ngVars, ueVars, asVars, cmVars, nrVars, appVars, cvVars, rdVars, gtVars, gmVars, rnVars, snVars, rqVars, arVars, ccVars>>
cfgOthers == <<cqVars, tsVars, ngVars, ueVars, asVars, cmVars, nrVars, appVars, cvVars, rdVars, gtVars, gmVars, rnVars, snVars, rqVars, arVars, ccVars>>
ngOthers == <<cqVars, tsVars, cfgVars, ueVars, asVars, cmVars, nrVars, appVars, cvVars, rdVars, gtVars, gmVars, rnVars, snVars, rqVars, arVars, ccVars>>
ueOthers == <<cqVars, tsVars, cfgVars, ngVars, asVars, cmVars, nrVars, appVars, cvVars, rdVars, gtVars, gmVars, rnVars, snVars, rqVars, arVars, ccVars>>
asOthers == <<cqVars, tsVars, cfgVars, ngVars, ueVars, cmVars, nrVars, appVars, cvVars, rdVars, gtVars, gmVars, rnVars, snVars, rqVars, arVars, ccVars>>
cmOthers == <<cqVars, tsVars, cfgVars, ngVars, ueVars, asVars, nrVars, appVars, cvVars, rdVars, gtVars, gmVars, rnVars, snVars, rqVars, arVars, ccVars>>
nrOthers == <<cqVars, tsVars, cfgVars, ngVars, ueVars, asVars, cmVars, appVars, cvVars, rdVars, gtVars, gmVars, rnVars, snVars, rqVars, arVars, ccVars>>
appOthers == <<cqVars, tsVars, cfgVars, ngVars, ueVars, asVars, cmVars, nrVars, cvVars, rdVars, gtVars, gmVars, rnVars, snVars, rqVars, arVars, ccVars>>
cvOthers == <<cqVars, tsVars, cfgVars, ngVars, ueVars, asVars, cmVars, nrVars, appVars, rdVars, gtVars, gmVars, rnVars, snVars, rqVars, arVars, ccVars>>
rdOthers == <<cqVars, tsVars, cfgVars, ngVars, ueVars, asVars, cmVars, nrVars, appVars, cvVars, gtVars, gmVars, rnVars, snVars, rqVars, arVars, ccVars>>
gtOthers == <<cqVars, tsVars, cfgVars, ngVars, ueVars, asVars, cmVars, nrVars, appVars, cvVars, rdVars, gmVars, rnVars, snVars, rqVars, arVars, ccVars>>
gmOthers == <<cqVars, tsVars, cfgVars, ngVars, ueVars, asVars, cmVars, nrVars, appVars, cvVars, rdVars, gtVars, rnVars, snVars, rqVars, arVars, ccVars>>
rnOthers == <<cqVars, tsVars, cfgVars, ngVars, ueVars, asVars, cmVars, nrVars, appVars, cvVars, rdVars, gtVars, gmVars, snVars, rqVars, arVars, ccVars>>
snOthers == <<cqVars, tsVars, cfgVars, ngVars, ueVars, asVars, cmVars, nrVars, appVars, cvVars, rdVars, gtVars, gmVars, rnVars, rqVars, arVars, ccVars>>
rqOthers == <<cqVars, tsVars, cfgVars, ngVars, ueVars, asVars, cmVars, nrVars, appVars, cvVars, rdVars, gtVars, gmVars, rnVars, snVars, arVars, ccVars>>
arOthers == <<cqVars, tsVars, cfgVars, ngVars, ueVars, asVars, cmVars, nrVars, appVars, cvVars, rdVars, gtVars, gmVars, rnVars, snVars, rqVars, ccVars>>
ccOthers == <<cqVars, tsVars, cfgVars, ngVars, ueVars, asVars, cmVars, nrVars, appVars, cvVars, rdVars, gtVars, gmVars, rnVars, snVars, rqVars, arVars>>

(***************************************************************************)
(* Generic helpers                                                         *)
(***************************************************************************)
\* "no task", "no call", "no output": placeholders of the same shape as the values
None == <<"none", 0>>
NoCall == <<0, 0>>
NoOut == <<NoCall, 0>>

IsPrefix(s, t) ==
    /\ Len(s) <= Len(t)
    /\ \A i \in 1..Len(s) : s[i] = t[i]

(***************************************************************************)
(*                              ContextQueue                               *)
(***************************************************************************)
\* Number of tasks calling schedule_and_wait, and calls each of them makes.
NCallers == 2
MaxCalls == 2
\* Task slots available to tokio::spawn for process_queue.
NProcs == 2

Callers == 1..NCallers
Procs == 1..NProcs
Calls == Callers \X (1..MaxCalls)

CallerTask(c) == <<"caller", c>>
ProcTask(p) == <<"proc", p>>

\* tokio::sync::Mutex::lock: granted at once when free with nobody queued,
\* otherwise the task joins the FIFO of waiters.
MutexAcquire(task) ==
    IF cqMutex = None /\ cqMutexWait = <<>>
    THEN /\ cqMutex' = task
         /\ cqMutexWait' = cqMutexWait
    ELSE /\ cqMutex' = cqMutex
         /\ cqMutexWait' = Append(cqMutexWait, task)

\* Dropping the MutexGuard: the lock is handed to the longest waiting task.
MutexRelease ==
    IF cqMutexWait = <<>>
    THEN /\ cqMutex' = None
         /\ cqMutexWait' = cqMutexWait
    ELSE /\ cqMutex' = Head(cqMutexWait)
         /\ cqMutexWait' = Tail(cqMutexWait)

\* queue.push_back(future)
PushFront(q, f) == <<f>> \o q
PushBack(q, f) == Append(q, f)

\* if !self.processor_active.load(SeqCst)
AlwaysSpawn(active) == TRUE
ShouldSpawn(active) == ~active

\* self.processor_active.store(false) when the queue is found empty
FlagKept(active) == active
FlagAfterDrain(active) == FALSE

\* fut.await in process_queue: the processor goes on once the future is complete
NotAwaited(st) == TRUE
FutureComplete(st) == st = "done"

\* Output of the closure of call c run against context ctx
ClosureOutput(c, ctx) == <<c, Len(ctx) + 1>>

InitCQ ==
    /\ cqQueue = <<>>
    /\ cqActive = FALSE
    /\ cqMutex = None
    /\ cqMutexWait = <<>>
    /\ cqInner = <<>>
    /\ cqWriter = NoCall
    /\ cqCall = [c \in Calls |-> "new"]
    /\ cqOut = [c \in Calls |-> NoOut]
    /\ cqRes = [c \in Calls |-> NoOut]
    /\ cqPc = [c \in Callers |-> "idle"]
    /\ cqN = [c \in Callers |-> 0]
    /\ cqRet = [c \in Callers |-> <<>>]
    /\ cqProc = [p \in Procs |-> "off"]
    /\ cqCur = [p \in Procs |-> NoCall]
    /\ cqOrder = <<>>

CurrentCall(c) == <<c, cqN[c] + 1>>

\* schedule_and_wait up to `self.queue.lock()` in push_future: the channel and
\* the boxed future are created, then the task asks for the queue mutex.
Schedule(c) ==
    /\ cqPc[c] = "idle"
    /\ cqN[c] < MaxCalls
    /\ cqCall' = [cqCall EXCEPT ![CurrentCall(c)] = "created"]
    /\ MutexAcquire(CallerTask(c))
    /\ cqPc' = [cqPc EXCEPT ![c] = "push"]
    /\ UNCHANGED cqOthers
    /\ UNCHANGED <<cqQueue, cqActive, cqInner, cqWriter, cqOut, cqRes, cqN,
                   cqRet, cqProc, cqCur, cqOrder>>

\* push_future: queue.push_back(future) under the mutex
Push(c) ==
    /\ cqPc[c] = "push"
    /\ cqMutex = CallerTask(c)
    /\ cqQueue' = PushBack(cqQueue, CurrentCall(c))
    /\ cqOrder' = Append(cqOrder, CurrentCall(c))
    /\ cqCall' = [cqCall EXCEPT ![CurrentCall(c)] = "queued"]
    /\ cqPc' = [cqPc EXCEPT ![c] = "flag"]
    /\ UNCHANGED cqOthers
    /\ UNCHANGED <<cqActive, cqMutex, cqMutexWait, cqInner, cqWriter, cqOut,
                   cqRes, cqN, cqRet, cqProc, cqCur>>

\* push_future: test processor_active, set it and spawn process_queue when it
\* was clear, then drop the guard at the end of the function.
SpawnOrSkip(c) ==
    /\ cqPc[c] = "flag"
    /\ cqMutex = CallerTask(c)
    /\ IF ShouldSpawn(cqActive)
       THEN /\ cqActive' = TRUE
            /\ IF \E p \in Procs : cqProc[p] = "off"
               THEN \E p \in Procs :
                        /\ cqProc[p] = "off"
                        /\ cqProc' = [cqProc EXCEPT ![p] = "start"]
               ELSE cqProc' = cqProc
       ELSE UNCHANGED <<cqActive, cqProc>>
    /\ MutexRelease
    /\ cqPc' = [cqPc EXCEPT ![c] = "rx"]
    /\ UNCHANGED cqOthers
    /\ UNCHANGED <<cqQueue, cqInner, cqWriter, cqCall, cqOut, cqRes, cqN,
                   cqRet, cqCur, cqOrder>>

\* schedule_and_wait: rx.await.unwrap()
Receive(c) ==
    /\ cqPc[c] = "rx"
    /\ cqRes[CurrentCall(c)] # NoOut
    /\ cqRet' = [cqRet EXCEPT ![c] = Append(@, cqRes[CurrentCall(c)])]
    /\ cqN' = [cqN EXCEPT ![c] = @ + 1]
    /\ cqPc' = [cqPc EXCEPT ![c] = "idle"]
    /\ UNCHANGED cqOthers
    /\ UNCHANGED <<cqQueue, cqActive, cqMutex, cqMutexWait, cqInner, cqWriter,
                   cqCall, cqOut, cqRes, cqProc, cqCur, cqOrder>>

\* process_queue: self.queue.lock() at the top of the loop
ProcLock(p) ==
    /\ cqProc[p] = "start"
    /\ MutexAcquire(ProcTask(p))
    /\ cqProc' = [cqProc EXCEPT ![p] = "check"]
    /\ UNCHANGED cqOthers
    /\ UNCHANGED <<cqQueue, cqActive, cqInner, cqWriter, cqCall, cqOut, cqRes,
                   cqPc, cqN, cqRet, cqCur, cqOrder>>

\* process_queue: queue found empty: clear the flag, break (the guard drops)
ProcExit(p) ==
    /\ cqProc[p] = "check"
    /\ cqMutex = ProcTask(p)
    /\ cqQueue = <<>>
    /\ cqActive' = FlagAfterDrain(cqActive)
    /\ MutexRelease
    /\ cqProc' = [cqProc EXCEPT ![p] = "off"]
    /\ UNCHANGED cqOthers
    /\ UNCHANGED <<cqQueue, cqInner, cqWriter, cqCall, cqOut, cqRes, cqPc,
                   cqN, cqRet, cqCur, cqOrder>>

\* process_queue: pop_front and start awaiting the future (guard still held)
ProcPop(p) ==
    /\ cqProc[p] = "check"
    /\ cqMutex = ProcTask(p)
    /\ cqQueue # <<>>
    /\ cqCur' = [cqCur EXCEPT ![p] = Head(cqQueue)]
    /\ cqQueue' = Tail(cqQueue)
    /\ cqCall' = [cqCall EXCEPT ![Head(cqQueue)] = "started"]
    /\ cqProc' = [cqProc EXCEPT ![p] = "await"]
    /\ UNCHANGED cqOthers
    /\ UNCHANGED <<cqActive, cqMutex, cqMutexWait, cqInner, cqWriter, cqOut,
                   cqRes, cqPc, cqN, cqRet, cqOrder>>

\* process_queue: fut.await returned; the guard drops at the end of the
\* iteration and the loop starts over
ProcLoop(p) ==
    /\ cqProc[p] = "await"
    /\ FutureComplete(cqCall[cqCur[p]])
    /\ MutexRelease
    /\ cqCur' = [cqCur EXCEPT ![p] = NoCall]
    /\ cqProc' = [cqProc EXCEPT ![p] = "start"]
    /\ UNCHANGED cqOthers
    /\ UNCHANGED <<cqQueue, cqActive, cqInner, cqWriter, cqCall, cqOut, cqRes,
                   cqPc, cqN, cqRet, cqOrder>>

\* the boxed future of enqueue_and_get_result: context.write().await
ClosureLock(c) ==
    /\ cqCall[c] = "started"
    /\ cqWriter = NoCall
    /\ cqWriter' = c
    /\ cqCall' = [cqCall EXCEPT ![c] = "running"]
    /\ UNCHANGED cqOthers
    /\ UNCHANGED <<cqQueue, cqActive, cqMutex, cqMutexWait, cqInner, cqOut,
                   cqRes, cqPc, cqN, cqRet, cqProc, cqCur, cqOrder>>

\* closure(&mut context) and future.await: the closure mutates the context
ClosureRun(c) ==
    /\ cqCall[c] = "running"
    /\ cqOut' = [cqOut EXCEPT ![c] = ClosureOutput(c, cqInner)]
    /\ cqInner' = Append(cqInner, c)
    /\ cqCall' = [cqCall EXCEPT ![c] = "ran"]
    /\ UNCHANGED cqOthers
    /\ UNCHANGED <<cqQueue, cqActive, cqMutex, cqMutexWait, cqWriter, cqRes,
                   cqPc, cqN, cqRet, cqProc, cqCur, cqOrder>>

\* the oneshot Receiver of call c is gone: the task awaiting it was dropped
ReceiverDropped(c) == cqPc[c[1]] = "dropped" /\ CurrentCall(c[1]) = c

\* `let _ = tx.send(output)`: the Err of a send without receiver is ignored
SendUnwrapped(dropped) == IF dropped THEN "panicked" ELSE "sent"
SendIgnored(dropped) == "sent"

\* tx.send(output): the value goes into the channel, or comes back in the Err
\* and is dropped when the receiver is gone
ClosureSend(c) ==
    /\ cqCall[c] = "ran"
    /\ cqRes' = IF ReceiverDropped(c) THEN cqRes ELSE [cqRes EXCEPT ![c] = cqOut[c]]
    /\ cqCall' = [cqCall EXCEPT ![c] = SendIgnored(ReceiverDropped(c))]
    /\ UNCHANGED cqOthers
    /\ UNCHANGED <<cqQueue, cqActive, cqMutex, cqMutexWait, cqInner, cqWriter,
                   cqOut, cqPc, cqN, cqRet, cqProc, cqCur, cqOrder>>

\* end of the async block: the write guard on the context drops
ClosureEnd(c) ==
    /\ cqCall[c] = "sent"
    /\ cqWriter' = NoCall
    /\ cqCall' = [cqCall EXCEPT ![c] = "done"]
    /\ UNCHANGED cqOthers
    /\ UNCHANGED <<cqQueue, cqActive, cqMutex, cqMutexWait, cqInner, cqOut,
                   cqRes, cqPc, cqN, cqRet, cqProc, cqCur, cqOrder>>

\* the task awaiting schedule_and_wait is dropped while it awaits the channel:
\* between push_back and `rx.await` push_future has no await point, so this is
\* the only place where a task whose closure is in the queue can be dropped
DropCaller(c) ==
    /\ cqPc[c] = "rx"
    /\ cqPc' = [cqPc EXCEPT ![c] = "dropped"]
    /\ UNCHANGED cqOthers
    /\ UNCHANGED <<cqQueue, cqActive, cqMutex, cqMutexWait, cqInner, cqWriter,
                   cqCall, cqOut, cqRes, cqN, cqRet, cqProc, cqCur, cqOrder>>

CallerStep(c) == Schedule(c) \/ Push(c) \/ SpawnOrSkip(c) \/ Receive(c)
ProcStep(p) == ProcLock(p) \/ ProcExit(p) \/ ProcPop(p) \/ ProcLoop(p)
ClosureStep(c) == ClosureLock(c) \/ ClosureRun(c) \/ ClosureSend(c) \/ ClosureEnd(c)

NextCQ ==
    \/ \E c \in Callers : Schedule(c)
    \/ \E c \in Callers : Push(c)
    \/ \E c \in Callers : SpawnOrSkip(c)
    \/ \E c \in Callers : Receive(c)
    \/ \E p \in Procs : ProcLock(p)
    \/ \E p \in Procs : ProcExit(p)
    \/ \E p \in Procs : ProcPop(p)
    \/ \E p \in Procs : ProcLoop(p)
    \/ \E c \in Calls : ClosureLock(c)
    \/ \E c \in Calls : ClosureRun(c)
    \/ \E c \in Calls : ClosureSend(c)
    \/ \E c \in Calls : ClosureEnd(c)

\* the same, with callers that can be dropped while they wait
NextCQDrop ==
    \/ NextCQ
    \/ \E c \in Callers : DropCaller(c)

(***************************************************************************)
(*                               TokenStore                                *)
(***************************************************************************)
\* Number of tasks calling TokenStore::set, each once.
NSetters == 2

Setters == 1..NSetters

\* Number of tasks calling TokenStore::get, each once.
NGetters == 2

Getters == 1..NGetters

\* Number of tasks calling NrfClient::get_token: the task's TokenStore::get is
\* the get of getter t, the set that follows a None is the set of setter t.
NTokenCallers == 3

TokenCallers == 1..NTokenCallers

\* every task that holds a call on the store
StoreTasks == Setters \cup Getters \cup TokenCallers
\* service names used as keys
Keys == {"NnrfNfm", "NnrfDisc"}

\* static TOKEN_COUNTER: AtomicU32 = AtomicU32::new(1)
TokenCounterStart == 1

\* increment_counter: TOKEN_COUNTER.fetch_add(1, Relaxed), the new counter value
\* (the counter wraps at 2^32, far beyond the number of states drawn here)
IncrementCounter(v) == v + 1

\* no entry under the key
Absent == [id |-> 0, kind |-> "Absent", val |-> 0]

\* TokenState::new: a state Updating with a fresh id
NewUpdating(id) == [id |-> id, kind |-> "Updating", val |-> 0]

\* TokenState::is_updating
IsUpdating(st) == st.kind = "Updating"

\* set, `Some(val) if val.as_ref().is_updating()`: the call gives up
NeverInProgress(st) == FALSE
UpdateInProgress(st) == st # Absent /\ IsUpdating(st)

\* set: the state published when the future has completed
PublishedUninitialized(id, res) ==
    IF res = 0
    THEN [id |-> id, kind |-> "Uninitialized", val |-> 0]
    ELSE [id |-> id, kind |-> "Ready", val |-> res]
Published(id, res) ==
    IF res = 0
    THEN [id |-> id, kind |-> "Failed", val |-> 0]
    ELSE [id |-> id, kind |-> "Ready", val |-> res]

IdleSetter == [pc |-> "idle", key |-> "", id |-> 0, res |-> 0, ret |-> "", retId |-> 0]

IdleGetter == [pc |-> "idle", key |-> "", notify |-> 0, woken |-> FALSE, round |-> 0,
               ret |-> "", val |-> 0, retId |-> 0]

InitTS ==
    /\ tsMap = [k \in Keys |-> Absent]
    /\ tsCounter = TokenCounterStart
    /\ tsSet = [s \in StoreTasks |-> IdleSetter]
    /\ tsGet = [g \in StoreTasks |-> IdleGetter]

\* get: `for _ in 1..10`, nine rounds of read and wait
GetRounds == 9

\* get: what a round does with the entry it read
ReadOutcome(st) ==
    CASE st.kind \in {"Absent", "Uninitialized"} -> "None"
      [] st.kind = "Ready" -> "Some"
      [] st.kind = "Failed" -> "ReadError"
      [] OTHER -> "wait"

\* Notify::notify_waiters wakes the Notified futures that exist when it is
\* called, and stores no permit for one created later
NotYetWaiting(gt, id) == gt.pc \in {"notified", "waiting"} /\ gt.notify = id
Waiting(gt, id) == gt.pc = "waiting" /\ gt.notify = id

\* set: TokenState::new() draws the id of the update this call would publish
SetNew(s) ==
    /\ tsSet[s].pc = "idle"
    /\ \E k \in Keys :
          tsSet' = [tsSet EXCEPT ![s] = [@ EXCEPT !.pc = "check", !.key = k,
                                                   !.id = tsCounter]]
    /\ tsCounter' = IncrementCounter(tsCounter)
    /\ UNCHANGED tsMap
    /\ UNCHANGED tsGet
    /\ UNCHANGED tsOthers

\* set: get_async(&key); an entry that is Updating ends the call with
\* UpdateAlredyInProgress(id of that entry); the entry is dropped again
SetCheck(s) ==
    /\ tsSet[s].pc = "check"
    /\ IF UpdateInProgress(tsMap[tsSet[s].key])
       THEN tsSet' = [tsSet EXCEPT ![s] = [@ EXCEPT !.pc = "returned",
                          !.ret = "UpdateAlreadyInProgress",
                          !.retId = tsMap[tsSet[s].key].id]]
       ELSE tsSet' = [tsSet EXCEPT ![s] = [@ EXCEPT !.pc = "upsert"]]
    /\ UNCHANGED <<tsMap, tsCounter>>
    /\ UNCHANGED tsGet
    /\ UNCHANGED tsOthers

\* set: upsert_async(key, Arc::new(ongoing_update_state))
SetUpsert(s) ==
    /\ tsSet[s].pc = "upsert"
    /\ tsMap' = [tsMap EXCEPT ![tsSet[s].key] = NewUpdating(tsSet[s].id)]
    /\ tsSet' = [tsSet EXCEPT ![s] = [@ EXCEPT !.pc = "await"]]
    /\ UNCHANGED tsCounter
    /\ UNCHANGED tsGet
    /\ UNCHANGED tsOthers

\* set: future.await completes, with Ok(token of this call) or with Err
SetFutureDone(s) ==
    /\ tsSet[s].pc = "await"
    /\ \E res \in {0, s} :
          tsSet' = [tsSet EXCEPT ![s] = [@ EXCEPT !.pc = "publish", !.res = res]]
    /\ UNCHANGED <<tsMap, tsCounter>>
    /\ UNCHANGED tsGet
    /\ UNCHANGED tsOthers

\* set: update_async(&key, |_, v| *v = token_state)
SetPublish(s) ==
    /\ tsSet[s].pc = "publish"
    /\ tsMap' = [tsMap EXCEPT ![tsSet[s].key] =
                    IF @ = Absent THEN @ ELSE Published(tsSet[s].id, tsSet[s].res)]
    /\ tsSet' = [tsSet EXCEPT ![s] = [@ EXCEPT !.pc = "notify"]]
    /\ UNCHANGED tsCounter
    /\ UNCHANGED tsGet
    /\ UNCHANGED tsOthers

\* set: notify.notify_waiters(), then the result is returned
SetNotify(s) ==
    /\ tsSet[s].pc = "notify"
    /\ tsSet' = [tsSet EXCEPT ![s] = [@ EXCEPT !.pc = "returned",
                    !.ret = IF tsSet[s].res = 0 THEN "InnerFutureError" ELSE "Ok",
                    !.retId = tsSet[s].id]]
    /\ UNCHANGED <<tsMap, tsCounter>>
    /\ tsGet' = [g \in StoreTasks |->
                    IF Waiting(tsGet[g], tsSet[s].id)
                    THEN [tsGet[g] EXCEPT !.woken = TRUE]
                    ELSE tsGet[g]]
    /\ UNCHANGED tsOthers

\* get: one round on the key: read_async clones the entry; Ready, Failed and
\* no entry end the call, Updating leaves the task holding the entry's Notify
GetRead(g) ==
    /\ tsGet[g].pc \in {"idle", "read"}
    /\ \E k \in Keys :
          /\ tsGet[g].pc = "read" => k = tsGet[g].key
          /\ LET st == tsMap[k]
                 out == ReadOutcome(st)
             IN  tsGet' = [tsGet EXCEPT ![g] =
                    IF out = "wait"
                    THEN [@ EXCEPT !.pc = "notified", !.key = k, !.notify = st.id,
                                   !.round = @ + 1]
                    ELSE [@ EXCEPT !.pc = "returned", !.key = k,
                                   !.round = @ + 1, !.ret = out,
                                   !.val = st.val, !.retId = st.id]]
    /\ UNCHANGED <<tsMap, tsCounter, tsSet>>
    /\ UNCHANGED tsOthers

\* get: notify.notified() creates the Notified future the task then awaits
GetNotified(g) ==
    /\ tsGet[g].pc = "notified"
    /\ tsGet' = [tsGet EXCEPT ![g] = [@ EXCEPT !.pc = "waiting", !.woken = FALSE]]
    /\ UNCHANGED <<tsMap, tsCounter, tsSet>>
    /\ UNCHANGED tsOthers

\* get: the Notified future completes; the next round, or Ok(None) after the
\* ninth
GetWake(g) ==
    /\ tsGet[g].pc = "waiting"
    /\ tsGet[g].woken
    /\ tsGet' = [tsGet EXCEPT ![g] =
          IF tsGet[g].round < GetRounds
          THEN [@ EXCEPT !.pc = "read", !.woken = FALSE]
          ELSE [@ EXCEPT !.pc = "returned", !.woken = FALSE, !.ret = "None"]]
    /\ UNCHANGED <<tsMap, tsCounter, tsSet>>
    /\ UNCHANGED tsOthers

SetterStep(s) ==
    \/ SetNew(s)
    \/ SetCheck(s)
    \/ SetUpsert(s)
    \/ SetFutureDone(s)
    \/ SetPublish(s)
    \/ SetNotify(s)

GetterStep(g) ==
    \/ GetRead(g)
    \/ GetNotified(g)
    \/ GetWake(g)

NextTS ==
    \/ \E s \in Setters : SetterStep(s)
    \/ \E g \in Getters : GetterStep(g)

\* Number of set calls made in all when the callers call again and again.
MaxSets == 10

\* the task calls set again after its call has returned
SetAgain(s) ==
    /\ tsSet[s].pc = "returned"
    /\ tsCounter <= MaxSets
    /\ tsSet' = [tsSet EXCEPT ![s] = IdleSetter]
    /\ UNCHANGED <<tsMap, tsCounter>>
    /\ UNCHANGED tsGet
    /\ UNCHANGED tsOthers

\* a key under churn: one task sets again and again while one get waits
ChurnSetter == 1
ChurnGetter == 1

NextTSChurn ==
    \/ SetterStep(ChurnSetter)
    \/ SetAgain(ChurnSetter)
    \/ GetterStep(ChurnGetter)

(***************************************************************************)
(*                     AppContext: atomic configuration                    *)
(***************************************************************************)
\* Number of reading tasks, reads each of them makes, commits of the writer,
\* calls of update_config.
NReaders == 2
MaxReads == 2
MaxCommits == 2
MaxUpdates == 1

Readers == 1..NReaders

\* amf_name of the configuration files handed to Configuration::new
AmfNames == {0, -1}

\* Configuration::new, the fields the readers look at: name is the file's
\* amf_name, nf_id a new Uuid::new_v4() (the k-th one drawn is -k)
ConfigurationNew(k, amf_name) == [nf_id |-> -k, name |-> amf_name]

\* AppContextInner::initialize: the snapshot published at start-up
BootConfig == ConfigurationNew(0, 0)

\* update_fn of the k-th commit: it assigns nf_id and name
UpdateFn(k, config) == [config EXCEPT !.nf_id = k, !.name = k]

\* A field read through the Guard that get_config returned: the guard keeps
\* the snapshot it loaded, whatever is stored afterwards.
LiveField(guard, store, f) == store[f]
GuardField(guard, store, f) == guard[f]

\* since: the commits that had returned when the read began; reset: an
\* update_config replaced the configuration after the last of them
IdleReader == [pc |-> "idle", n |-> 0, guard |-> BootConfig, nf_id |-> 0,
               name |-> 0, since |-> 0, reset |-> FALSE, window |-> {}]

\* updates: the update_config calls made; fresh: the published snapshot was
\* made by update_config
InitCfg ==
    /\ cfgStore = BootConfig
    /\ cfgW = [pc |-> "idle", new |-> BootConfig, n |-> 0, updates |-> 0,
               fresh |-> FALSE]
    /\ cfgR = [r \in Readers |-> IdleReader]

\* commit_config: let mut new_config = self.get_config().as_ref().clone()
CommitClone ==
    /\ cfgW.pc = "idle"
    /\ cfgW.n < MaxCommits
    /\ cfgW' = [cfgW EXCEPT !.pc = "cloned", !.new = cfgStore]
    /\ UNCHANGED <<cfgStore, cfgR>>
    /\ UNCHANGED cfgOthers

\* commit_config: update_fn(&mut new_config)
CommitApply ==
    /\ cfgW.pc = "cloned"
    /\ cfgW' = [cfgW EXCEPT !.pc = "applied", !.new = UpdateFn(cfgW.n + 1, cfgW.new)]
    /\ UNCHANGED <<cfgStore, cfgR>>
    /\ UNCHANGED cfgOthers

\* commit_config: self.config.store(Arc::new(new_config)), then it returns.
\* Every read under way gets the new snapshot added to its history.
CommitStore ==
    /\ cfgW.pc = "applied"
    /\ cfgStore' = cfgW.new
    /\ cfgW' = [cfgW EXCEPT !.pc = "idle", !.n = @ + 1, !.fresh = FALSE]
    /\ cfgR' = [r \in Readers |->
                  IF cfgR[r].pc \in {"idle", "done"}
                  THEN cfgR[r]
                  ELSE [cfgR[r] EXCEPT !.window = @ \cup {cfgW.new}]]
    /\ UNCHANGED cfgOthers

\* update_config(&mut self, valid_config): config.swap(Arc::new(
\* Configuration::new(valid_config))), then the store of the Sbi part, which
\* the readers here do not look at.  The exclusive borrow rules out every call
\* on &self that is under way: no commit_config and no get_config runs, while
\* a Guard loaded before keeps its snapshot.
UpdateConfig(amf_name) ==
    /\ cfgW.pc = "idle"
    /\ \A r \in Readers : cfgR[r].pc # "called"
    /\ cfgW.updates < MaxUpdates
    /\ cfgStore' = ConfigurationNew(cfgW.updates + 1, amf_name)
    /\ cfgW' = [cfgW EXCEPT !.updates = @ + 1, !.fresh = TRUE]
    /\ cfgR' = [r \in Readers |->
                  IF cfgR[r].pc \in {"idle", "done"}
                  THEN cfgR[r]
                  ELSE [cfgR[r] EXCEPT !.window = @ \cup {cfgStore'},
                                       !.reset = TRUE]]
    /\ UNCHANGED cfgOthers

\* a read is called: from here on it runs concurrently with the commits
ReadBegin(r) ==
    /\ cfgR[r].pc \in {"idle", "done"}
    /\ cfgR[r].n < MaxReads
    /\ cfgR' = [cfgR EXCEPT ![r] = [@ EXCEPT !.pc = "called", !.since = cfgW.n,
                                             !.reset = cfgW.fresh,
                                             !.window = {cfgStore}]]
    /\ UNCHANGED <<cfgStore, cfgW>>
    /\ UNCHANGED cfgOthers

\* get_config: self.config.load()
GetConfig(r) ==
    /\ cfgR[r].pc = "called"
    /\ cfgR' = [cfgR EXCEPT ![r] = [@ EXCEPT !.pc = "guard", !.guard = cfgStore]]
    /\ UNCHANGED <<cfgStore, cfgW>>
    /\ UNCHANGED cfgOthers

\* get_nf_id: self.get_config().nf_id
ReadNfId(r) ==
    /\ cfgR[r].pc = "guard"
    /\ cfgR' = [cfgR EXCEPT ![r] = [@ EXCEPT !.pc = "nf_id",
                    !.nf_id = GuardField(cfgR[r].guard, cfgStore, "nf_id")]]
    /\ UNCHANGED <<cfgStore, cfgW>>
    /\ UNCHANGED cfgOthers

\* a second field read through the same guard; the guard is dropped
ReadName(r) ==
    /\ cfgR[r].pc = "nf_id"
    /\ cfgR' = [cfgR EXCEPT ![r] = [@ EXCEPT !.pc = "done", !.n = @ + 1,
                    !.name = GuardField(cfgR[r].guard, cfgStore, "name")]]
    /\ UNCHANGED <<cfgStore, cfgW>>
    /\ UNCHANGED cfgOthers

NextCfg ==
    \/ CommitClone
    \/ CommitApply
    \/ CommitStore
    \/ \E amf_name \in AmfNames : UpdateConfig(amf_name)
    \/ \E r \in Readers : ReadBegin(r)
    \/ \E r \in Readers : GetConfig(r)
    \/ \E r \in Readers : ReadNfId(r)
    \/ \E r \in Readers : ReadName(r)

(***************************************************************************)
(*                NGAP engine: associations and NG setup                   *)
(***************************************************************************)
\* Number of SCTP associations accepted, PDUs read by one steady reader.
NAssocs == 2
MaxRouted == 1
\* PDUs written through send_downlink_nas_transport and send_data in all.
MaxSends == 1

\* NG setup attempts per association (ngap::constants::app)
INITIALIZATION_RETRIES == 2

Assocs == 1..NAssocs
\* GlobalRanNodeIds the gNBs present
GnbIds == {"G1", "G2"}

NoPdu == "none"
NgSetupResponsePdu == "NgSetupResponse"
SemanticFailurePdu == "NgSetupFailure/Protocol/SemanticError"
UnknownPlmnFailurePdu == "NgSetupFailure/Misc/UnknownPlmnOrSnpn"
NotCompatiblePdu == "ErrorIndication/Protocol/MessageNotCompatibleWithReceiverState"
DecodeErrorPdu == "ErrorIndication/Protocol/AbstractSyntaxErrorFalselyConstructedMessage"

\* ToPdu for EmptyResponse and for NgapFailure<EmptyResponse>, through
\* log_and_convert_to_pdu: neither a success nor an empty failure has a PDU
ToPdu(ret) == NoPdu

\* What a message is: bytes that do not decode, an InitialUeMessage
\* initiating message, any other PDU
MessageKinds == {"undecodable", "InitialUeMessage", "other"}

\* How the InitialUeMessage handler ends (see UeAdd, UeDispatch and UeReturn)
HandlerResults == {"Ok", "UeContextAlreadyExists", "UeContextNotFound", "panic"}

\* new_semantic_error(None, None).to_pdu()
SemanticErrorPdu == "ErrorIndication/Protocol/SemanticError"

\* ngap_route: the arm for everything that is not an InitialUeMessage request
RouteNothing(kind) == NoPdu
RouteOther(kind) == SemanticErrorPdu

\* What read_data and decode_ngap_pdu can deliver during NG setup: nothing
\* (peer closed or read error), bytes that do not decode, another PDU, or an
\* NgSetupRequest with its global_ran_node_id and supported TA list (whose
\* PLMN converts or not, and matches the AMF's support_tai_list or not).
NoRequest == [kind |-> "none", id |-> "", tai |-> ""]
SetupMessages ==
    {[kind |-> k, id |-> "", tai |-> ""] : k \in {"closed", "undecodable", "other"}}
    \cup {[kind |-> "NgSetupRequest", id |-> g, tai |-> t] :
             g \in GnbIds, t \in {"match", "nomatch", "badplmn"}}

\* GnbContext::new: global_ran_node_id and name take their defaults
NewGnbContext(a) == [id |-> "", name |-> "", tnla |-> a]

\* gnb_contexts.contains_async(&global_ran_node_id)
NeverContains(gnbs, id) == FALSE
ContainsGnb(gnbs, id) == \E e \in gnbs : e.id = id

\* start_ngap_processing: `Some(context)` goes on to the insertion, `None` returns
AlwaysProceeds(outcome) == TRUE
ProceedsToInsert(outcome) == outcome = "Some"

\* reads: the read_data calls of NG setup; abortAt: the first attempt that read
\* something else than an NgSetupRequest
NewAssoc == [pc |-> "new", attempt |-> 0, req |-> NoRequest,
             gnb |-> NewGnbContext(0), resp |-> NoPdu, ok |-> FALSE,
             wasReg |-> FALSE, setupOk |-> FALSE, reads |-> 0, abortAt |-> 0]

InitNg ==
    /\ ngGnbs = {}
    /\ ngA = [a \in Assocs |-> NewAssoc]
    /\ ngWire = [a \in Assocs |-> <<>>]
    /\ ngReader = [a \in Assocs |-> "off"]
    /\ ngRouted = [a \in Assocs |-> 0]
    /\ ngTasks = [a \in Assocs |-> {}]
    /\ ngCancelled = FALSE
    /\ ngRun = "accepting"
    /\ ngBacklog = {}

\* try_ng_setup_with_retries: `for attempt in 1..=INITIALIZATION_RETRIES`
AlwaysRetry(attempt) == TRUE
MayRetry(attempt) == attempt < INITIALIZATION_RETRIES

\* The end of one try_ng_setup inside try_ng_setup_with_retries: Ok returns
\* Some(context); Err starts the next attempt or, after the last, returns None.
AfterAttempt(rec, ok) ==
    IF ok
    THEN [rec EXCEPT !.pc = IF ProceedsToInsert("Some") THEN "insert" ELSE "returned",
                     !.setupOk = TRUE]
    ELSE IF MayRetry(rec.attempt)
         THEN [rec EXCEPT !.pc = "read", !.attempt = @ + 1]
         ELSE [rec EXCEPT !.pc = IF ProceedsToInsert("None") THEN "insert" ELSE "returned"]

\* a peer opens an SCTP connection to the listener
Connect(a) ==
    /\ ngA[a].pc = "new"
    /\ a \notin ngBacklog
    /\ ngBacklog' = ngBacklog \cup {a}
    /\ UNCHANGED <<ngGnbs, ngA, ngWire, ngReader, ngRouted, ngCancelled, ngRun>>
    /\ UNCHANGED ngTasks
    /\ UNCHANGED ngOthers

\* run, `select! { biased; res = accept_and_create_tnla(..) => .. }`: the accept
\* branch is polled first and ignores the token it is given; with a connection
\* waiting it returns a Tnla and start_ngap_processing is spawned
Accept(a) ==
    /\ ngRun = "accepting"
    /\ a \in ngBacklog
    /\ ngBacklog' = ngBacklog \ {a}
    /\ ngA' = [ngA EXCEPT ![a] = [@ EXCEPT !.pc = "read", !.attempt = 1]]
    /\ UNCHANGED <<ngGnbs, ngWire, ngReader, ngRouted>>
    /\ UNCHANGED <<ngCancelled, ngRun>>
    /\ UNCHANGED ngTasks
    /\ UNCHANGED ngOthers

\* run, `_ = cancel.cancelled() => break`: polled when the accept branch is
\* pending, that is with no connection waiting
AcceptPending(backlog) == backlog = {}

RunBreak ==
    /\ ngRun = "accepting"
    /\ ngCancelled
    /\ AcceptPending(ngBacklog)
    /\ ngRun' = "shutdown"
    /\ UNCHANGED <<ngGnbs, ngA, ngWire, ngReader, ngRouted, ngCancelled, ngBacklog>>
    /\ UNCHANGED ngTasks
    /\ UNCHANGED ngOthers

\* run: self.graceful_shutdown().await?; Ok(())
GracefulShutdown ==
    /\ ngRun = "shutdown"
    /\ ngRun' = "returned"
    /\ UNCHANGED <<ngGnbs, ngA, ngWire, ngReader, ngRouted, ngCancelled, ngBacklog>>
    /\ UNCHANGED ngTasks
    /\ UNCHANGED ngOthers

\* try_ng_setup: GnbContext::new, read_data, decode_ngap_pdu and the match on
\* the decoded PDU up to the first await of the NG setup handler
TryNgSetupRead(a) ==
    /\ ngA[a].pc = "read"
    /\ \E m \in SetupMessages :
          LET fresh == [ngA[a] EXCEPT !.req = m, !.gnb = NewGnbContext(a),
                                      !.resp = NoPdu, !.ok = FALSE,
                                      !.reads = @ + 1,
                                      !.abortAt = IF @ = 0 /\ m.kind # "NgSetupRequest"
                                                  THEN ngA[a].attempt ELSE @,
                                      !.wasReg = /\ m.kind = "NgSetupRequest"
                                                 /\ \E e \in ngGnbs : e.id = m.id]
          IN  ngA' = [ngA EXCEPT ![a] =
                 CASE m.kind = "closed" -> AfterAttempt(fresh, FALSE)
                   [] m.kind = "undecodable" ->
                        [fresh EXCEPT !.pc = "write", !.resp = DecodeErrorPdu]
                   [] m.kind = "other" ->
                        [fresh EXCEPT !.pc = "write", !.resp = NotCompatiblePdu]
                   [] OTHER -> [fresh EXCEPT !.pc = "check"]]
    /\ UNCHANGED <<ngGnbs, ngWire, ngReader, ngRouted>>
    /\ UNCHANGED <<ngCancelled, ngRun, ngBacklog>>
    /\ UNCHANGED ngTasks
    /\ UNCHANGED ngOthers

\* NgSetupRequest handle_request: the conflict check and, when it passes, the
\* assignments to the new GnbContext
NgSetupCheck(a) ==
    /\ ngA[a].pc = "check"
    /\ ngA' = [ngA EXCEPT ![a] =
          IF ContainsGnb(ngGnbs, ngA[a].req.id)
          THEN [@ EXCEPT !.pc = "write", !.resp = SemanticFailurePdu]
          ELSE [@ EXCEPT !.pc = "tai",
                         !.gnb = [@ EXCEPT !.id = ngA[a].req.id, !.name = ngA[a].req.id]]]
    /\ UNCHANGED <<ngGnbs, ngWire, ngReader, ngRouted>>
    /\ UNCHANGED <<ngCancelled, ngRun, ngBacklog>>
    /\ UNCHANGED ngTasks
    /\ UNCHANGED ngOthers

\* NgSetupRequest handle_request: PLMN conversion, the intersection with the
\* AMF's support_tai_list, and the response
NgSetupTai(a) ==
    /\ ngA[a].pc = "tai"
    /\ ngA' = [ngA EXCEPT ![a] =
          CASE ngA[a].req.tai = "badplmn" ->
                 [@ EXCEPT !.pc = "write", !.resp = SemanticFailurePdu]
            [] ngA[a].req.tai = "nomatch" ->
                 [@ EXCEPT !.pc = "write", !.resp = UnknownPlmnFailurePdu]
            [] OTHER ->
                 [@ EXCEPT !.pc = "write", !.resp = NgSetupResponsePdu, !.ok = TRUE]]
    /\ UNCHANGED <<ngGnbs, ngWire, ngReader, ngRouted>>
    /\ UNCHANGED <<ngCancelled, ngRun, ngBacklog>>
    /\ UNCHANGED ngTasks
    /\ UNCHANGED ngOthers

\* try_ng_setup: encode_and_write_ngap_pdu(...).await?; a failed write turns the
\* attempt into an error whatever the handler returned
TryNgSetupWrite(a) ==
    /\ ngA[a].pc = "write"
    /\ \E written \in BOOLEAN :
          /\ ngWire' = [ngWire EXCEPT ![a] = IF written THEN Append(@, ngA[a].resp) ELSE @]
          /\ ngA' = [ngA EXCEPT ![a] = AfterAttempt(@, written /\ ngA[a].ok)]
    /\ UNCHANGED <<ngGnbs, ngReader, ngRouted>>
    /\ UNCHANGED <<ngCancelled, ngRun, ngBacklog>>
    /\ UNCHANGED ngTasks
    /\ UNCHANGED ngOthers

\* start_ngap_processing: gnb_contexts.insert_async(id, context).await.unwrap()
InsertGnb(a) ==
    /\ ngA[a].pc = "insert"
    /\ IF \E e \in ngGnbs : e.id = ngA[a].gnb.id
       THEN /\ ngA' = [ngA EXCEPT ![a] = [@ EXCEPT !.pc = "panicked"]]
            /\ UNCHANGED ngGnbs
       ELSE /\ ngGnbs' = ngGnbs \cup {ngA[a].gnb}
            /\ ngA' = [ngA EXCEPT ![a] = [@ EXCEPT !.pc = "spawn"]]
    /\ UNCHANGED <<ngWire, ngReader, ngRouted>>
    /\ UNCHANGED <<ngCancelled, ngRun, ngBacklog>>
    /\ UNCHANGED ngTasks
    /\ UNCHANGED ngOthers

\* start_ngap_processing: tokio::spawn(run_ngap_loop)
SpawnReader(a) ==
    /\ ngA[a].pc = "spawn"
    /\ ngA' = [ngA EXCEPT ![a] = [@ EXCEPT !.pc = "returned"]]
    /\ ngReader' = [ngReader EXCEPT ![a] = "reading"]
    /\ UNCHANGED <<ngGnbs, ngWire, ngRouted>>
    /\ UNCHANGED <<ngCancelled, ngRun, ngBacklog>>
    /\ UNCHANGED ngTasks
    /\ UNCHANGED ngOthers

\* The response of the task spawned for a message: the PDU synthesized for
\* bytes that do not decode, and for a PDU that decodes what ngap_route
\* returns, which for an InitialUeMessage is the handler's result through
\* log_and_convert_to_pdu
TaskResponse(kind, result) ==
    CASE kind = "undecodable" -> DecodeErrorPdu
      [] kind = "InitialUeMessage" -> ToPdu(result)
      [] OTHER -> RouteOther(kind)

\* run_ngap_loop: a message is read and a task is spawned for it, which
\* decodes it and hands the PDU to ngap_route; a handler that panics ends the
\* task
ReaderRoute(a) ==
    /\ ngReader[a] = "reading"
    /\ ngRouted[a] < MaxRouted
    /\ ngRouted' = [ngRouted EXCEPT ![a] = @ + 1]
    /\ \E kind \in MessageKinds, result \in HandlerResults :
          /\ kind # "InitialUeMessage" => result = "Ok"
          /\ ngTasks' = [ngTasks EXCEPT ![a] =
                IF result = "panic" \/ TaskResponse(kind, result) = NoPdu
                THEN @
                ELSE @ \cup {[msg |-> ngRouted[a] + 1,
                              response |-> TaskResponse(kind, result)]}]
    /\ UNCHANGED <<ngGnbs, ngA, ngWire, ngReader>>
    /\ UNCHANGED <<ngCancelled, ngRun, ngBacklog>>
    /\ UNCHANGED ngOthers

\* the spawned task, `if let Some(response) = response`:
\* encode_and_write_ngap_pdu on the gNB's Tnla; an Err is logged
ReaderWrite(a) ==
    /\ \E t \in ngTasks[a], ok \in BOOLEAN :
          /\ ngTasks' = [ngTasks EXCEPT ![a] = @ \ {t}]
          /\ ngWire' = [ngWire EXCEPT ![a] = IF ok THEN Append(@, t.response) ELSE @]
    /\ UNCHANGED <<ngGnbs, ngA, ngReader, ngRouted>>
    /\ UNCHANGED <<ngCancelled, ngRun, ngBacklog>>
    /\ UNCHANGED ngOthers

\* DownlinkNasTransport { .. }.to_pdu(), and the bytes handed to send_data
DownlinkNasTransportPdu == "DownlinkNasTransport"
RawData == "data"

\* the PDUs on the Tnlas that send_downlink_nas_transport and send_data wrote
SentOn(wire) ==
    {<<a, i>> \in Assocs \X (1..(2 * MaxSends + INITIALIZATION_RETRIES + MaxRouted)) :
        /\ i <= Len(wire[a])
        /\ wire[a][i] \in {DownlinkNasTransportPdu, RawData}}

\* UeContext::send_downlink_nas_transport: encode_and_write_ngap_pdu on the
\* Tnla of the UE's gNB.  A UeContext belongs to a GnbContext that NG setup
\* has registered; a failed write leaves the Tnla as it was.
SendDownlinkNasTransport(a) ==
    /\ \E e \in ngGnbs : e.tnla = a
    /\ Cardinality(SentOn(ngWire)) < MaxSends
    /\ ngWire' = [ngWire EXCEPT ![a] = Append(@, DownlinkNasTransportPdu)]
    /\ UNCHANGED <<ngGnbs, ngA, ngReader, ngRouted, ngTasks>>
    /\ UNCHANGED <<ngCancelled, ngRun, ngBacklog>>
    /\ UNCHANGED ngOthers

\* Network::send_data(association_id, data): write_data on the association
\* of that id, which is in the registry from its accept on; for an id that
\* is not there it returns TnlaNotFound and writes nothing
SendData(a) ==
    /\ ngA[a].pc # "new"
    /\ Cardinality(SentOn(ngWire)) < MaxSends
    /\ ngWire' = [ngWire EXCEPT ![a] = Append(@, RawData)]
    /\ UNCHANGED <<ngGnbs, ngA, ngReader, ngRouted, ngTasks>>
    /\ UNCHANGED <<ngCancelled, ngRun, ngBacklog>>
    /\ UNCHANGED ngOthers

\* run_ngap_loop: read_data gives Ok(None) or Err: the loop ends
ReaderEnd(a) ==
    /\ ngReader[a] = "reading"
    /\ ngReader' = [ngReader EXCEPT ![a] = "ended"]
    /\ UNCHANGED <<ngGnbs, ngA, ngWire, ngRouted>>
    /\ UNCHANGED <<ngCancelled, ngRun, ngBacklog>>
    /\ UNCHANGED ngTasks
    /\ UNCHANGED ngOthers

\* the root CancellationToken is cancelled; the tasks of the associations are
\* not told
CancelEngine ==
    /\ ~ngCancelled
    /\ ngCancelled' = TRUE
    /\ UNCHANGED <<ngGnbs, ngA, ngWire, ngReader, ngRouted, ngRun, ngBacklog>>
    /\ UNCHANGED ngTasks
    /\ UNCHANGED ngOthers

NextNg ==
    \/ CancelEngine
    \/ RunBreak
    \/ GracefulShutdown
    \/ \E a \in Assocs : Connect(a)
    \/ \E a \in Assocs : Accept(a)
    \/ \E a \in Assocs : TryNgSetupRead(a)
    \/ \E a \in Assocs : NgSetupCheck(a)
    \/ \E a \in Assocs : NgSetupTai(a)
    \/ \E a \in Assocs : TryNgSetupWrite(a)
    \/ \E a \in Assocs : InsertGnb(a)
    \/ \E a \in Assocs : SpawnReader(a)
    \/ \E a \in Assocs : ReaderRoute(a)
    \/ \E a \in Assocs : ReaderWrite(a)
    \/ \E a \in Assocs : ReaderEnd(a)

\* The associations from their accept on, together with the callers of
\* send_downlink_nas_transport and send_data
NextNgSend ==
    \/ \E a \in Assocs : Connect(a)
    \/ \E a \in Assocs : Accept(a)
    \/ \E a \in Assocs : TryNgSetupRead(a)
    \/ \E a \in Assocs : NgSetupCheck(a)
    \/ \E a \in Assocs : NgSetupTai(a)
    \/ \E a \in Assocs : TryNgSetupWrite(a)
    \/ \E a \in Assocs : InsertGnb(a)
    \/ \E a \in Assocs : SpawnReader(a)
    \/ \E a \in Assocs : ReaderRoute(a)
    \/ \E a \in Assocs : ReaderWrite(a)
    \/ \E a \in Assocs : ReaderEnd(a)
    \/ \E a \in Assocs : SendDownlinkNasTransport(a)
    \/ \E a \in Assocs : SendData(a)

(***************************************************************************)
(*             Initial UE Message handling inside one gNB                  *)
(***************************************************************************)
\* Number of InitialUeMessages the steady reader spawns a task for.
NHandlers == 3

Handlers == 1..NHandlers
\* ran_ue_ngap_id values the gNB uses
RanUeNgapIds == {1, 2}
\* NAS PDUs: one that parses as a GmmMessage (a RegistrationRequest for
\* initial registration with a SUCI and a UE security capability), one that
\* does not parse
NasPdus == {"gmm", "invalid"}

\* define_counter!: new() starts the atomic at 1
CounterNew == 1

\* GnbContext.amf_ue_id_generator: a counter of the gNB, made with new()
AmfUeIdGenerator == CounterNew

\* define_counter!: increment() is fetch_add(1), which returns the previous
\* value; the wrap of the u64 lies beyond every reachable value
CounterStuck(v) == v
CounterIncrement(v) == v + 1

\* ContextManager::contains_context
NoContext(queues, id) == FALSE
ContainsContext(queues, id) == \E e \in queues : e.ran = id

\* handle_nas: strong references to the state machine at Arc::get_mut, the
\* one in self.gmm and the clone in the local `gmm`
GmmStrongCount == 2

\* Arc::get_mut: Some only for the sole strong reference
ArcGetMut(strong) == IF strong = 1 THEN "Some" ELSE "None"

\* UeContext::handle_nas: a PDU that does not parse is traced and dropped; for
\* one that parses, Arc::get_mut on the clone of self.gmm finds two strong
\* references, gives None, and the unwrap panics before the state machine
\* sees the message
HandleNas(nas) ==
    IF nas = "gmm" /\ ArcGetMut(GmmStrongCount) = "None" THEN "panicked" ELSE "returned"

\* UeContext::new in handle_request: the optional identifiers are None and
\* the NAS state machine is new (initial state deregistered); `by` is the
\* task that created the context
NewUeContext(ran, amf, h) ==
    [ran |-> ran, amf |-> amf, by |-> h, suci |-> "None", gmm |-> "deregistered"]

\* ran_nas: whether the queue's task has run handle_nas for the handler, and
\* how it ended
IdleHandler == [pc |-> "idle", ran |-> 0, nas |-> "", amf |-> 0,
                ret |-> "", resp |-> NoPdu, existed |-> FALSE, ran_nas |-> "no"]

InitUe ==
    /\ ueQueues = {}
    /\ ueCounter = AmfUeIdGenerator
    /\ ueAlloc = <<>>
    /\ ueNas = {}
    /\ ueH = [h \in Handlers |-> IdleHandler]

\* run_ngap_loop: a task is spawned for a message that decodes to an
\* InitialUeMessage, and ngap_route hands it to handle_request
UeReceive(h) ==
    /\ ueH[h].pc = "idle"
    /\ \E ran \in RanUeNgapIds, nas \in NasPdus :
          ueH' = [ueH EXCEPT ![h] =
                     [@ EXCEPT !.pc = "contains", !.ran = ran, !.nas = nas,
                               !.existed = \E e \in ueQueues : e.ran = ran]]
    /\ UNCHANGED <<ueQueues, ueCounter, ueAlloc, ueNas>>
    /\ UNCHANGED ueOthers

\* handle_request: contains_context and the early return
UeContains(h) ==
    /\ ueH[h].pc = "contains"
    /\ ueH' = [ueH EXCEPT ![h] =
          IF ContainsContext(ueQueues, ueH[h].ran)
          THEN [@ EXCEPT !.pc = "done", !.ret = "UeContextAlreadyExists",
                         !.resp = ToPdu("UeContextAlreadyExists")]
          ELSE [@ EXCEPT !.pc = "new"]]
    /\ UNCHANGED <<ueQueues, ueCounter, ueAlloc, ueNas>>
    /\ UNCHANGED ueOthers

\* handle_request: UeContext::new with amf_ue_id_generator.increment()
UeNew(h) ==
    /\ ueH[h].pc = "new"
    /\ ueH' = [ueH EXCEPT ![h] = [@ EXCEPT !.pc = "add", !.amf = ueCounter]]
    /\ ueAlloc' = Append(ueAlloc, [by |-> h, id |-> ueCounter])
    /\ ueCounter' = CounterIncrement(ueCounter)
    /\ UNCHANGED <<ueQueues, ueNas>>
    /\ UNCHANGED ueOthers

\* handle_request: add_context.  insert_async on a free id stores the queue.
\* On a taken id it hands the Arc back to the map_err closure while the local
\* `queue` still holds the second strong reference: the debug assertion on
\* strong_count fails, and without debug assertions Arc::into_inner gives
\* None and the unwrap panics.
UeAdd(h) ==
    /\ ueH[h].pc = "add"
    /\ IF \E e \in ueQueues : e.ran = ueH[h].ran
       THEN /\ ueH' = [ueH EXCEPT ![h] = [@ EXCEPT !.pc = "panicked", !.ret = "panic"]]
            /\ UNCHANGED ueQueues
       ELSE /\ ueQueues' = ueQueues \cup {NewUeContext(ueH[h].ran, ueH[h].amf, h)}
            /\ ueH' = [ueH EXCEPT ![h] = [@ EXCEPT !.pc = "dispatch"]]
    /\ UNCHANGED <<ueCounter, ueAlloc, ueNas>>
    /\ UNCHANGED ueOthers

\* handle_request, with_context: queues.read_async(&id, |_, queue| queue.clone()).
\* With no queue under the id with_context returns ContextNotFound and the
\* handler returns UeContextNotFound through map_or.
UeDispatch(h) ==
    /\ ueH[h].pc = "dispatch"
    /\ ueH' = [ueH EXCEPT ![h] =
          IF \E e \in ueQueues : e.ran = ueH[h].ran
          THEN [@ EXCEPT !.pc = "schedule"]
          ELSE [@ EXCEPT !.pc = "done", !.ret = "UeContextNotFound",
                         !.resp = ToPdu("UeContextNotFound")]]
    /\ UNCHANGED <<ueQueues, ueCounter, ueAlloc, ueNas>>
    /\ UNCHANGED ueOthers

\* with_context, queue.schedule_and_wait(closure): the closure is boxed with
\* the oneshot sender and pushed on the context's queue; the handler goes on
\* to wait on the receiver
UeSchedule(h) ==
    /\ ueH[h].pc = "schedule"
    /\ ueH' = [ueH EXCEPT ![h] = [@ EXCEPT !.pc = "waiting"]]
    /\ UNCHANGED <<ueQueues, ueCounter, ueAlloc, ueNas>>
    /\ UNCHANGED ueOthers

\* the task of the context's queue runs the closure: handle_nas on the
\* UeContext.  When it returns, the closure sends () on the oneshot channel;
\* when it panics, the sender is dropped with the unwinding task.
UeHandleNas(h) ==
    /\ ueH[h].pc = "waiting"
    /\ ueH[h].ran_nas = "no"
    /\ ueNas' = ueNas \cup {[ran |-> ueH[h].ran, by |-> h, nas |-> ueH[h].nas]}
    /\ ueH' = [ueH EXCEPT ![h] = [@ EXCEPT !.ran_nas = HandleNas(ueH[h].nas)]]
    /\ UNCHANGED <<ueQueues, ueCounter, ueAlloc>>
    /\ UNCHANGED ueOthers

\* schedule_and_wait: rx.await.unwrap() gives the closure's output, and
\* with_context's Ok goes through map_or to Ok(EmptyResponse); on a closed
\* channel the unwrap panics in the handler's task
UeReturn(h) ==
    /\ ueH[h].pc = "waiting"
    /\ ueH[h].ran_nas # "no"
    /\ ueH' = [ueH EXCEPT ![h] =
          IF ueH[h].ran_nas = "panicked"
          THEN [@ EXCEPT !.pc = "panicked", !.ret = "panic"]
          ELSE [@ EXCEPT !.pc = "done", !.ret = "Ok", !.resp = ToPdu("Ok")]]
    /\ UNCHANGED <<ueQueues, ueCounter, ueAlloc, ueNas>>
    /\ UNCHANGED ueOthers

NextUe ==
    \/ \E h \in Handlers : UeReceive(h)
    \/ \E h \in Handlers : UeContains(h)
    \/ \E h \in Handlers : UeNew(h)
    \/ \E h \in Handlers : UeAdd(h)
    \/ \E h \in Handlers : UeDispatch(h)
    \/ \E h \in Handlers : UeSchedule(h)
    \/ \E h \in Handlers : UeHandleNas(h)
    \/ \E h \in Handlers : UeReturn(h)

(***************************************************************************)
(*               Associations registry of the SCTP network                 *)
(***************************************************************************)
\* Number of Tnla ids handed out.
MaxTnla == 4

\* The listener's address and the peers that connect to it
LocalAddrs == {"amf"}
RemoteAddrs == {"ranA", "ranB"}
AddrPairs == LocalAddrs \X RemoteAddrs

\* HashSet::insert gives false when the pair is in the set
NeverTaken(set, pair) == FALSE
PairTaken(set, pair) == pair \in set

\* TnlaAssociation::new: the addresses of the stream and a fresh id
NewTnla(id, pair) == [id |-> id, local_addr |-> pair[1], remote_addr |-> pair[2]]

TnlaPair(t) == <<t.local_addr, t.remote_addr>>

NoRegistryCall == [op |-> "none", pair |-> <<"", "">>, id |-> 0, ret |-> "",
                   map0 |-> {}, set0 |-> {}]

InitAs ==
    /\ asMap = {}
    /\ asSet = {}
    /\ asCounter = CounterNew
    /\ asLast = NoRegistryCall

\* accept_and_create_tnla under the write lock: add_tnla_association whose
\* stream gives no address (TnlaCreationError, before an id is taken)
AddTnlaCreationError ==
    /\ asLast' = [NoRegistryCall EXCEPT !.op = "add", !.ret = "TnlaCreationError",
                                        !.map0 = asMap, !.set0 = asSet]
    /\ UNCHANGED <<asMap, asSet, asCounter>>
    /\ UNCHANGED asOthers

\* accept_and_create_tnla under the write lock: add_tnla_association
AddTnlaAssociation(pair) ==
    /\ asCounter <= MaxTnla
    /\ asCounter' = CounterIncrement(asCounter)
    /\ IF PairTaken(asSet, pair)
       THEN /\ asLast' = [op |-> "add", pair |-> pair, id |-> asCounter,
                          ret |-> "AssociationAlreadyExists",
                          map0 |-> asMap, set0 |-> asSet]
            /\ UNCHANGED <<asMap, asSet>>
       ELSE /\ asSet' = asSet \cup {pair}
            /\ asMap' = asMap \cup {NewTnla(asCounter, pair)}
            /\ asLast' = [op |-> "add", pair |-> pair, id |-> asCounter,
                          ret |-> "Ok", map0 |-> asMap, set0 |-> asSet]
    /\ UNCHANGED asOthers

\* remove_tnla_association
RemoveTnlaAssociation(id) ==
    /\ IF \E t \in asMap : t.id = id
       THEN LET t == CHOOSE t \in asMap : t.id = id
            IN  /\ asMap' = asMap \ {t}
                /\ asSet' = asSet \ {TnlaPair(t)}
                /\ asLast' = [op |-> "remove", pair |-> TnlaPair(t), id |-> id,
                              ret |-> "Some", map0 |-> asMap, set0 |-> asSet]
       ELSE /\ asLast' = [op |-> "remove", pair |-> <<"", "">>, id |-> id,
                          ret |-> "None", map0 |-> asMap, set0 |-> asSet]
                    /\ UNCHANGED <<asMap, asSet>>
    /\ UNCHANGED asCounter
    /\ UNCHANGED asOthers

NextAs ==
    \/ AddTnlaCreationError
    \/ \E pair \in AddrPairs : AddTnlaAssociation(pair)
    \/ \E id \in 1..MaxTnla : RemoveTnlaAssociation(id)

(***************************************************************************)
(*                            ContextManager                               *)
(***************************************************************************)
\* Tasks calling into one manager, calls they make in all, contexts stored.
CmTasks == 2
CmMaxCalls == 4
CmMaxCtx == 2

CmCallers == 1..CmTasks
CmIds == {1, 2}
CmQueues == 1..CmMaxCtx

\* queues.contains_async / read_async: is there an entry under id
CmContains(map, id) == map[id] # 0

\* insert_async: Ok stores the queue, Err leaves the map as it is
CmInsert(map, id, q) == IF map[id] = 0 THEN [map EXCEPT ![id] = q] ELSE map

\* remove_async
CmRemove(map, id) == [map EXCEPT ![id] = 0]

\* change_id: the insert under old_id that follows a failed insert under new_id
NoRestore(map, old, q) == map
RestoreOld(map, old, q) == CmInsert(map, old, q)

EmptyMap == [id \in CmIds |-> 0]

IdleCall == [op |-> "none", pc |-> "idle", a |-> 0, b |-> 0, q |-> 0, ret |-> "",
             map0 |-> EmptyMap, after |-> EmptyMap, pend0 |-> 0, pend1 |-> 0,
             missed |-> FALSE]

InitCm ==
    /\ cmMap = EmptyMap
    /\ cmNextQ = 1
    /\ cmPending = [q \in CmQueues |-> 0]
    /\ cmN = 0
    /\ cmT = [t \in CmCallers |-> IdleCall]

\* a change_id that has removed the entry under old_id and not yet returned
ChangeInProgress(t) == cmT[t].op = "change_id" /\ cmT[t].pc \in {"insert", "restore"}

\* `seq`: the calls are made one after the other
CanRun(seq) == seq => \A t \in CmCallers : ~ChangeInProgress(t)

CanCall(t, seq) ==
    /\ cmT[t].pc \in {"idle", "done", "panicked"}
    /\ cmN < CmMaxCalls
    /\ CanRun(seq)

NewCall(op, a, b) ==
    [IdleCall EXCEPT !.op = op, !.a = a, !.b = b, !.map0 = cmMap]

\* add_context: a new ContextQueue around the context and insert_async.  On a
\* taken id the map hands the Arc back to the map_err closure while the local
\* `queue` holds the second strong reference: the debug assertion on
\* strong_count fails, and without debug assertions Arc::into_inner gives
\* None and the unwrap panics.
AddContext(t, id, seq) ==
    /\ CanCall(t, seq)
    /\ cmNextQ <= CmMaxCtx
    /\ cmN' = cmN + 1
    /\ cmMap' = CmInsert(cmMap, id, cmNextQ)
    /\ IF cmMap[id] = 0
       THEN /\ cmNextQ' = cmNextQ + 1
            /\ cmT' = [cmT EXCEPT ![t] =
                  [NewCall("add_context", id, 0) EXCEPT
                      !.pc = "done", !.q = cmNextQ, !.ret = "Ok", !.after = cmMap']]
       ELSE /\ UNCHANGED cmNextQ
            /\ cmT' = [cmT EXCEPT ![t] =
                  [NewCall("add_context", id, 0) EXCEPT
                      !.pc = "panicked", !.ret = "panic", !.after = cmMap']]
    /\ UNCHANGED cmPending
    /\ UNCHANGED cmOthers

\* contains_context
ContainsContextCall(t, id, seq) ==
    /\ CanCall(t, seq)
    /\ cmN' = cmN + 1
    /\ cmT' = [cmT EXCEPT ![t] =
          [NewCall("contains_context", id, 0) EXCEPT
              !.pc = "done", !.after = cmMap,
              !.ret = IF CmContains(cmMap, id) THEN "true" ELSE "false",
              !.missed = /\ ~CmContains(cmMap, id)
                         /\ \E u \in CmCallers :
                               ChangeInProgress(u) /\ id \in {cmT[u].a, cmT[u].b}]]
    /\ UNCHANGED <<cmMap, cmNextQ, cmPending>>
    /\ UNCHANGED cmOthers

\* with_context: read_async clones the queue of the id; with a queue the
\* closure is scheduled on it, without one the call returns ContextNotFound
WithContextLookup(t, id, seq) ==
    /\ CanCall(t, seq)
    /\ cmN' = cmN + 1
    /\ IF CmContains(cmMap, id)
       THEN /\ cmT' = [cmT EXCEPT ![t] =
                  [NewCall("with_context", id, 0) EXCEPT !.pc = "waiting", !.q = cmMap[id]]]
            /\ cmPending' = [cmPending EXCEPT ![cmMap[id]] = @ + 1]
       ELSE /\ cmT' = [cmT EXCEPT ![t] =
                  [NewCall("with_context", id, 0) EXCEPT
                      !.pc = "done", !.ret = "ContextNotFound", !.after = cmMap,
                      !.missed = \E u \in CmCallers :
                                    ChangeInProgress(u) /\ id \in {cmT[u].a, cmT[u].b}]]
            /\ UNCHANGED cmPending
    /\ UNCHANGED <<cmMap, cmNextQ>>
    /\ UNCHANGED cmOthers

\* with_context: schedule_and_wait returns the output of the closure
WithContextReturn(t, seq) ==
    /\ cmT[t].op = "with_context" /\ cmT[t].pc = "waiting"
    /\ CanRun(seq)
    /\ cmPending' = [cmPending EXCEPT ![cmT[t].q] = @ - 1]
    /\ cmT' = [cmT EXCEPT ![t] = [@ EXCEPT !.pc = "done", !.ret = "Ok", !.after = cmMap]]
    /\ UNCHANGED <<cmMap, cmNextQ, cmN>>
    /\ UNCHANGED cmOthers

\* change_id: remove_async(old_id)
ChangeIdRemove(t, old, new, seq) ==
    /\ CanCall(t, seq)
    /\ cmN' = cmN + 1
    /\ IF CmContains(cmMap, old)
       THEN /\ cmMap' = CmRemove(cmMap, old)
            /\ cmT' = [cmT EXCEPT ![t] =
                  [NewCall("change_id", old, new) EXCEPT
                      !.pc = "insert", !.q = cmMap[old], !.pend0 = cmPending[cmMap[old]]]]
       ELSE /\ UNCHANGED cmMap
            /\ cmT' = [cmT EXCEPT ![t] =
                  [NewCall("change_id", old, new) EXCEPT
                      !.pc = "done", !.ret = "OldIdNotFound", !.after = cmMap]]
    /\ UNCHANGED <<cmNextQ, cmPending>>
    /\ UNCHANGED cmOthers

\* change_id: insert_async(new_id, element_queue)
ChangeIdInsert(t) ==
    /\ cmT[t].op = "change_id" /\ cmT[t].pc = "insert"
    /\ cmMap' = CmInsert(cmMap, cmT[t].b, cmT[t].q)
    /\ cmT' = [cmT EXCEPT ![t] =
          IF cmMap[cmT[t].b] = 0
          THEN [@ EXCEPT !.pc = "done", !.ret = "Ok", !.after = cmMap',
                         !.pend1 = cmPending[cmT[t].q]]
          ELSE [@ EXCEPT !.pc = "restore"]]
    /\ UNCHANGED <<cmNextQ, cmPending, cmN>>
    /\ UNCHANGED cmOthers

\* change_id: `let _ = insert_async(old_id, element_queue)` and the error
ChangeIdRestore(t) ==
    /\ cmT[t].op = "change_id" /\ cmT[t].pc = "restore"
    /\ cmMap' = RestoreOld(cmMap, cmT[t].a, cmT[t].q)
    /\ cmT' = [cmT EXCEPT ![t] =
          [@ EXCEPT !.pc = "done", !.ret = "NewIdAlreadyExists", !.after = cmMap',
                    !.pend1 = cmPending[cmT[t].q]]]
    /\ UNCHANGED <<cmNextQ, cmPending, cmN>>
    /\ UNCHANGED cmOthers

CmStep(seq) ==
    \/ \E t \in CmCallers, id \in CmIds : AddContext(t, id, seq)
    \/ \E t \in CmCallers, id \in CmIds : ContainsContextCall(t, id, seq)
    \/ \E t \in CmCallers, id \in CmIds : WithContextLookup(t, id, seq)
    \/ \E t \in CmCallers : WithContextReturn(t, seq)
    \/ \E t \in CmCallers, old \in CmIds, new \in CmIds : ChangeIdRemove(t, old, new, seq)
    \/ \E t \in CmCallers : ChangeIdInsert(t)
    \/ \E t \in CmCallers : ChangeIdRestore(t)

\* calls made one after the other / calls of concurrent tasks
NextCmSeq == CmStep(TRUE)
NextCm == CmStep(FALSE)

(***************************************************************************)
(*                  NrfClient: registration with the NRF                   *)
(***************************************************************************)
\* Number of register_nf_instance calls, and the longest Location header.
MaxRegistrations == 2
MaxLocLen == 3

\* NF instance ids; a Location header is a string of '/', whole UUID texts and
\* other text
Uuids == {"U1", "U2"}
NilUuid == "U0"
LocTokens == {"/", "x"} \cup Uuids
Locations == UNION {[1..n -> LocTokens] : n \in 0..MaxLocLen}

\* The profile the NRF returns: heart_beat_timer is an Option (empty or one
\* value), custom_info["oauth2"] a JSON value or absent
Profiles == [heart_beat_timer : {{}, {10}},
             oauth2 : {"absent", "true", "false", "string"}]
NoProfile == [heart_beat_timer |-> {}, oauth2 |-> "absent"]

\* RegisterNfInstanceResponse as deserialized: Status200, Status201 with its
\* Location, one of the problem-details statuses, any other status
Responses ==
    [status : {"200"}, body : Profiles, location : {<<>>}]
        \cup [status : {"201"}, body : Profiles, location : Locations]
        \cup [status : {"problem", "other"}, body : {NoProfile}, location : {<<>>}]

\* NfConfig::default()
DefaultNfConfig == [heartbeat_timer |-> 0, nf_instance_id |-> NilUuid,
                    oauth_enabled |-> FALSE]

\* location.rfind('/'): the index of the last '/', 0 for None
Find(loc) ==
    LET S == {i \in 1..Len(loc) : loc[i] = "/"}
    IN  IF S = {} THEN 0 ELSE CHOOSE i \in S : \A j \in S : i <= j
RFind(loc) ==
    LET S == {i \in 1..Len(loc) : loc[i] = "/"}
    IN  IF S = {} THEN 0 ELSE CHOOSE i \in S : \A j \in S : j <= i

\* NfInstanceId::from_str: Ok for the text of one UUID
FromStr(text) == IF Len(text) = 1 /\ text[1] \in Uuids THEN text[1] ELSE "Err"

\* the match on (status, response): the result and the id taken from Location
MatchResponse(resp) ==
    CASE resp.status = "200" -> [ret |-> "Ok", id |-> {}]
      [] resp.status = "201" ->
           LET index == RFind(resp.location)
               instance == FromStr(SubSeq(resp.location, index + 1, Len(resp.location)))
           IN  IF index = 0
               THEN [ret |-> "LocationParseError", id |-> {}]
               ELSE IF instance = "Err"
                    THEN [ret |-> "InvalidLocationSent", id |-> {}]
                    ELSE [ret |-> "Ok", id |-> {instance}]
      [] OTHER -> [ret |-> "InvalidResponse", id |-> {}]

\* res.map(..): the NfConfig built from the profile, the id of the Location
\* and the id the call was made with
NewNfConfig(body, id, nf_instance_id) ==
    [heartbeat_timer |-> IF body.heart_beat_timer = {} THEN 0
                         ELSE CHOOSE v \in body.heart_beat_timer : TRUE,
     oauth_enabled |-> body.oauth2 = "true",
     nf_instance_id |-> IF id = {} THEN nf_instance_id ELSE CHOOSE v \in id : TRUE]

NoResponse == [status |-> "none", body |-> NoProfile, location |-> <<>>]

IdleRegister == [pc |-> "idle", n |-> 0, nf_instance_id |-> NilUuid,
                 resp |-> NoResponse, ret |-> "", id |-> {}]

InitNr ==
    /\ nrConfig = DefaultNfConfig
    /\ nrCall = IdleRegister

\* register_nf_instance up to client.execute(request).await
RegisterSend(nf_instance_id) ==
    /\ nrCall.pc \in {"idle", "returned"}
    /\ nrCall.n < MaxRegistrations
    /\ nrCall' = [IdleRegister EXCEPT !.pc = "sent", !.n = nrCall.n + 1,
                                      !.nf_instance_id = nf_instance_id]
    /\ UNCHANGED nrConfig
    /\ UNCHANGED nrOthers

\* execute or deserialize fails: the `?` returns the GenericClientError
RegisterNoResponse ==
    /\ nrCall.pc = "sent"
    /\ nrCall' = [nrCall EXCEPT !.pc = "returned", !.ret = "GenericClientError"]
    /\ UNCHANGED nrConfig
    /\ UNCHANGED nrOthers

\* the response is matched; on Ok the new NfConfig is stored and the call
\* returns the profile and the id of the Location
RegisterResponse(resp) ==
    /\ nrCall.pc = "sent"
    /\ LET res == MatchResponse(resp)
       IN  /\ nrCall' = [nrCall EXCEPT !.pc = "returned", !.resp = resp,
                                       !.ret = res.ret, !.id = res.id]
           /\ nrConfig' = IF res.ret = "Ok"
                          THEN NewNfConfig(resp.body, res.id, nrCall.nf_instance_id)
                          ELSE nrConfig
    /\ UNCHANGED nrOthers

NextNr ==
    \/ \E id \in Uuids : RegisterSend(id)
    \/ RegisterNoResponse
    \/ \E resp \in Responses : RegisterResponse(resp)

(***************************************************************************)
(*          NfApp::run: registration, start and deregistration             *)
(***************************************************************************)
Signals == {"SIGTERM", "SIGINT"}

\* `nf_app.register_nf().await?`: an Err ends the block, Ok goes on to start
IgnoreRegister(ok) == "start"
AfterRegister(ok) == IF ok THEN "start" ELSE "done"

\* the value run returns, from the branch taken, the result of the block and
\* the result of deregister_nf
RunResult(via, res, dreg) ==
    IF via = "signal"
    THEN IF dreg = "Ok" THEN "Ok" ELSE "ShutdownDeregistrationFailedError"
    ELSE CASE res = "Ok" /\ dreg = "Err" -> "ShutdownDeregistrationFailedError"
           [] dreg = "Ok" /\ res = "Err" -> "RuntimeError"
           [] dreg = "Err" -> "RuntimeWithDeregistrationError"
           [] OTHER -> "Ok"

\* run has spawned the signal task and is about to call T::initialize
InitApp ==
    /\ appRun = [pc |-> "initialize", via |-> "", dreg |-> "", ret |-> ""]
    /\ appBlock = [pc |-> "new", registered |-> "", res |-> ""]
    /\ appSignal = [pc |-> "waiting", sig |-> ""]
    /\ appLog = <<>>

\* the signal task: recv() of SIGTERM or SIGINT completes in its select!
SignalReceived(sig) ==
    /\ appSignal.pc = "waiting"
    /\ appSignal' = [pc |-> "received", sig |-> sig]
    /\ UNCHANGED <<appRun, appBlock, appLog>>
    /\ UNCHANGED appOthers

\* the signal task: shutdown_token.cancel()
SignalCancel ==
    /\ appSignal.pc = "received"
    /\ appSignal' = [appSignal EXCEPT !.pc = "cancelled"]
    /\ UNCHANGED <<appRun, appBlock, appLog>>
    /\ UNCHANGED appOthers

\* the signal task ends: its JoinHandle becomes ready
SignalTaskEnds ==
    /\ appSignal.pc = "cancelled"
    /\ appSignal' = [appSignal EXCEPT !.pc = "finished"]
    /\ UNCHANGED <<appRun, appBlock, appLog>>
    /\ UNCHANGED appOthers

\* the token given to T::initialize and to start is cancelled
TokenCancelled == appSignal.pc \in {"cancelled", "finished"}

\* T::initialize(..).map_err(InitializationFailedError)?
Initialize(ok) ==
    /\ appRun.pc = "initialize"
    /\ appRun' = IF ok
                 THEN [appRun EXCEPT !.pc = "select"]
                 ELSE [appRun EXCEPT !.pc = "returned",
                                     !.ret = "InitializationFailedError"]
    /\ UNCHANGED <<appBlock, appSignal, appLog>>
    /\ UNCHANGED appOthers

\* the block is polled for the first time: register_nf is invoked
RegisterNf ==
    /\ appRun.pc = "select"
    /\ appBlock.pc = "new"
    /\ appBlock' = [appBlock EXCEPT !.pc = "registering"]
    /\ appLog' = Append(appLog, "register_nf")
    /\ UNCHANGED <<appRun, appSignal>>
    /\ UNCHANGED appOthers

\* register_nf returns; `?`, then start is invoked
RegisterNfReturns(ok) ==
    /\ appRun.pc = "select"
    /\ appBlock.pc = "registering"
    /\ LET next == AfterRegister(ok)
       IN  /\ appBlock' = [appBlock EXCEPT
                               !.pc = IF next = "start" THEN "starting" ELSE "done",
                               !.registered = IF ok THEN "Ok" ELSE "Err",
                               !.res = IF next = "start" THEN "" ELSE "Err"]
           /\ appLog' = IF next = "start" THEN Append(appLog, "start") ELSE appLog
    /\ UNCHANGED <<appRun, appSignal>>
    /\ UNCHANGED appOthers

\* start returns: OmniPathApp::start is NgapContext::run, which returns Ok
\* once the token is cancelled
StartReturns ==
    /\ appRun.pc = "select"
    /\ appBlock.pc = "starting"
    /\ TokenCancelled
    /\ appBlock' = [appBlock EXCEPT !.pc = "done", !.res = "Ok"]
    /\ UNCHANGED <<appRun, appSignal, appLog>>
    /\ UNCHANGED appOthers

\* select! takes `_ = handle`: the signal task has finished; the block is
\* dropped where it stands and deregister_nf is invoked
SelectHandle ==
    /\ appRun.pc = "select"
    /\ appSignal.pc = "finished"
    /\ appRun' = [appRun EXCEPT !.pc = "deregistering", !.via = "signal"]
    /\ appBlock' = [appBlock EXCEPT !.pc = "dropped"]
    /\ appLog' = Append(appLog, "deregister_nf")
    /\ UNCHANGED appSignal
    /\ UNCHANGED appOthers

\* select! takes `res = async { .. }`: the block has returned; deregister_nf
\* is invoked
SelectBlock ==
    /\ appRun.pc = "select"
    /\ appBlock.pc = "done"
    /\ appRun' = [appRun EXCEPT !.pc = "deregistering", !.via = "block"]
    /\ appLog' = Append(appLog, "deregister_nf")
    /\ UNCHANGED <<appBlock, appSignal>>
    /\ UNCHANGED appOthers

\* deregister_nf returns and run returns
DeregisterNfReturns(ok) ==
    /\ appRun.pc = "deregistering"
    /\ LET dreg == IF ok THEN "Ok" ELSE "Err"
       IN  appRun' = [appRun EXCEPT !.pc = "returned", !.dreg = dreg,
                                    !.ret = RunResult(appRun.via, appBlock.res, dreg)]
    /\ UNCHANGED <<appBlock, appSignal, appLog>>
    /\ UNCHANGED appOthers

NextApp ==
    \/ \E sig \in Signals : SignalReceived(sig)
    \/ SignalCancel
    \/ SignalTaskEnds
    \/ \E ok \in BOOLEAN : Initialize(ok)
    \/ RegisterNf
    \/ \E ok \in BOOLEAN : RegisterNfReturns(ok)
    \/ StartReturns
    \/ SelectHandle
    \/ SelectBlock
    \/ \E ok \in BOOLEAN : DeregisterNfReturns(ok)

(***************************************************************************)
(*                      SBI / NGAP value conversions                       *)
(***************************************************************************)
\* Strings are sequences of characters, octets are numbers 0..255.
LowerHex == <<"0", "1", "2", "3", "4", "5", "6", "7", "8", "9",
              "a", "b", "c", "d", "e", "f">>
UpperHex == <<"0", "1", "2", "3", "4", "5", "6", "7", "8", "9",
              "A", "B", "C", "D", "E", "F">>

\* the value of an ASCII hex digit, either case
HexValue(c) ==
    IF \E i \in 1..16 : LowerHex[i] = c
    THEN (CHOOSE i \in 1..16 : LowerHex[i] = c) - 1
    ELSE (CHOOSE i \in 1..16 : UpperHex[i] = c) - 1

\* faster_hex::hex_decode(src, dst): two digits per octet
hex_decode(src) ==
    [i \in 1..(Len(src) \div 2) |-> 16 * HexValue(src[2 * i - 1]) + HexValue(src[2 * i])]

\* faster_hex::hex_string(bytes): two lower-case digits per octet
hex_string(bytes) ==
    [i \in 1..(2 * Len(bytes)) |->
        IF i % 2 = 1 THEN LowerHex[(bytes[(i + 1) \div 2] \div 16) + 1]
        ELSE LowerHex[(bytes[i \div 2] % 16) + 1]]

\* `c - b'0'` on a decimal digit, and format!("{}", d) on a value 0..9
DigitOf(c) == HexValue(c)
DigitChar(d) == LowerHex[d + 1]

convert_mcc_mnc_to_plmn_id(mcc, mnc) ==
    << DigitOf(mcc[2]) * 16 + DigitOf(mcc[1]),
       IF Len(mnc) = 2
       THEN 240 + DigitOf(mcc[3])
       ELSE DigitOf(mnc[1]) * 16 + DigitOf(mcc[3]),
       IF Len(mnc) = 2
       THEN DigitOf(mnc[2]) * 16 + DigitOf(mnc[1])
       ELSE DigitOf(mnc[3]) * 16 + DigitOf(mnc[2]) >>

convert_plmn_id_to_mcc_mnc(plmn_id) ==
    LET mcc_digit1 == plmn_id[1] % 16
        mcc_digit2 == plmn_id[1] \div 16
        mcc_digit3 == plmn_id[2] % 16
        mnc_digit1 == plmn_id[3] \div 16
        mnc_digit2 == plmn_id[3] % 16
        mnc_digit3 == plmn_id[2] \div 16
    IN  IF mnc_digit1 > 9 \/ mnc_digit2 > 9 \/ mcc_digit1 > 9 \/ mcc_digit2 > 9
           \/ mcc_digit3 > 9
        THEN [err |-> "ConversionError"]
        ELSE [mcc |-> <<DigitChar(mcc_digit1), DigitChar(mcc_digit2),
                        DigitChar(mcc_digit3)>>,
              mnc |-> IF mnc_digit3 >= 10
                      THEN <<DigitChar(mnc_digit2), DigitChar(mnc_digit1)>>
                      ELSE <<DigitChar(mnc_digit3), DigitChar(mnc_digit2),
                             DigitChar(mnc_digit1)>>]

convert_sbi_tac_to_ngap_tac(sbi_tac) == hex_decode(sbi_tac)
convert_ngap_tac_to_sbi_tac(ngap_tac) == hex_string(ngap_tac)

\* an Option is the empty set or a set of one value
convert_sbi_snssai_to_ngap_snssai(sbi) ==
    [sst |-> <<sbi.sst>>, sd |-> {hex_decode(sd_str) : sd_str \in sbi.sd}]
convert_ngap_snssai_to_sbi_snssai(ngap) ==
    [sst |-> ngap.sst[1], sd |-> {hex_string(sd) : sd \in ngap.sd}]

\* The values drawn: decimal digits and hex digits of both cases
SomeDigits == {"0", "1", "5", "9"}
SomeHex == {"0", "9", "a", "F"}
SomeSst == {0, 1, 255}

Strings(chars, n) == [1..n -> chars]

\* Mcc "^\d{3}$" with Mnc "^\d{2,3}$"
SbiPlmnIds == [mcc : Strings(SomeDigits, 3),
               mnc : Strings(SomeDigits, 2) \cup Strings(SomeDigits, 3)]
\* six hex digits, as SnssaiSd "^[A-Fa-f0-9]{6}$"
SbiTacs == Strings(SomeHex, 6)
SbiSnssais == [sst : SomeSst, sd : {{}} \cup {{sd} : sd \in Strings(SomeHex, 6)}]

SbiValues ==
    [type : {"PlmnId"}, v : SbiPlmnIds]
        \cup [type : {"Tac"}, v : SbiTacs]
        \cup [type : {"Snssai"}, v : SbiSnssais]

NoValue == [type |-> "none", v |-> <<>>]

InitCv ==
    /\ cvIn = NoValue
    /\ cvNgap = NoValue
    /\ cvOut = NoValue
    /\ cvPc = "input"

\* convert(&sbi): Element<&Sbi..> into Element<Ngap..>
ToNgap(sbi) ==
    /\ cvPc = "input"
    /\ cvIn' = sbi
    /\ cvNgap' = [type |-> sbi.type,
                  v |-> CASE sbi.type = "PlmnId" ->
                               convert_mcc_mnc_to_plmn_id(sbi.v.mcc, sbi.v.mnc)
                          [] sbi.type = "Tac" -> convert_sbi_tac_to_ngap_tac(sbi.v)
                          [] OTHER -> convert_sbi_snssai_to_ngap_snssai(sbi.v)]
    /\ cvPc' = "encoded"
    /\ UNCHANGED cvOut
    /\ UNCHANGED cvOthers

\* ngap_convert / ngap_try_convert (&ngap): back into the SBI type
ToSbi ==
    /\ cvPc = "encoded"
    /\ cvOut' = [type |-> cvNgap.type,
                 v |-> CASE cvNgap.type = "PlmnId" -> convert_plmn_id_to_mcc_mnc(cvNgap.v)
                         [] cvNgap.type = "Tac" -> convert_ngap_tac_to_sbi_tac(cvNgap.v)
                         [] OTHER -> convert_ngap_snssai_to_sbi_snssai(cvNgap.v)]
    /\ cvPc' = "decoded"
    /\ UNCHANGED <<cvIn, cvNgap>>
    /\ UNCHANGED cvOthers

NextCv ==
    \/ \E sbi \in SbiValues : ToNgap(sbi)
    \/ ToSbi

(***************************************************************************)
(*         run_ngap_loop: the reader of an established association         *)
(***************************************************************************)
\* Number of messages the peer sends on the association.
MaxMessages == 3

Messages == 1..MaxMessages

\* the id of the gNB's Tnla (the first id TNLA_ASSOCIATION_COUNTER hands out)
GnbTnla == 1

\* encode_and_write_ngap_pdu(&gnb_context.tnla_association, ..)
WriteTnla(gnb_tnla) == gnb_tnla

NoTask == [pc |-> "none", kind |-> "", response |-> NoPdu, result |-> "",
           wrote |-> ""]

InitRd ==
    /\ rdReader = "reading"
    /\ rdRead = 0
    /\ rdTask = [m \in Messages |-> NoTask]
    /\ rdWire = <<>>

\* `while let Ok(Some(message)) = read_data().await`: a message is read and a
\* task is spawned for it
ReadMessage(kind) ==
    /\ rdReader = "reading"
    /\ rdRead < MaxMessages
    /\ rdRead' = rdRead + 1
    /\ rdTask' = [rdTask EXCEPT ![rdRead + 1] = [NoTask EXCEPT !.pc = "decode",
                                                               !.kind = kind]]
    /\ UNCHANGED <<rdReader, rdWire>>
    /\ UNCHANGED rdOthers

\* read_data gives Ok(None) or Err: the loop ends
ReadEnd ==
    /\ rdReader = "reading"
    /\ rdReader' = "ended"
    /\ UNCHANGED <<rdRead, rdTask, rdWire>>
    /\ UNCHANGED rdOthers

\* the task: decode_ngap_pdu and, for a PDU that decodes, ngap_route up to
\* the handler
TaskDecode(m) ==
    /\ rdTask[m].pc = "decode"
    /\ rdTask' = [rdTask EXCEPT ![m] =
          CASE @.kind = "undecodable" ->
                 [@ EXCEPT !.pc = "write", !.response = DecodeErrorPdu]
            [] @.kind = "InitialUeMessage" -> [@ EXCEPT !.pc = "handler"]
            [] OTHER ->
                 [@ EXCEPT !.pc = IF RouteOther(@.kind) = NoPdu THEN "done" ELSE "write",
                           !.response = RouteOther(@.kind)]]
    /\ UNCHANGED <<rdReader, rdRead, rdWire>>
    /\ UNCHANGED rdOthers

\* the task: handle_request returns and log_and_convert_to_pdu turns the
\* result into the response, or the handler panics and the task ends
TaskHandler(m, result) ==
    /\ rdTask[m].pc = "handler"
    /\ rdTask' = [rdTask EXCEPT ![m] =
          IF result = "panic"
          THEN [@ EXCEPT !.pc = "panicked", !.result = result]
          ELSE [@ EXCEPT !.pc = IF ToPdu(result) = NoPdu THEN "done" ELSE "write",
                         !.result = result, !.response = ToPdu(result)]]
    /\ UNCHANGED <<rdReader, rdRead, rdWire>>
    /\ UNCHANGED rdOthers

\* the task: `if let Some(response)`: encode_and_write_ngap_pdu; an Err is
\* logged
TaskWrite(m, ok) ==
    /\ rdTask[m].pc = "write"
    /\ rdWire' = IF ok
                 THEN Append(rdWire, [tnla |-> WriteTnla(GnbTnla), msg |-> m,
                                      pdu |-> rdTask[m].response])
                 ELSE rdWire
    /\ rdTask' = [rdTask EXCEPT ![m] = [@ EXCEPT !.pc = "done",
                                         !.wrote = IF ok THEN "Ok" ELSE "Err"]]
    /\ UNCHANGED <<rdReader, rdRead>>
    /\ UNCHANGED rdOthers

NextRd ==
    \/ \E kind \in MessageKinds : ReadMessage(kind)
    \/ ReadEnd
    \/ \E m \in Messages : TaskDecode(m)
    \/ \E m \in Messages, result \in HandlerResults : TaskHandler(m, result)
    \/ \E m \in Messages, ok \in BOOLEAN : TaskWrite(m, ok)

(***************************************************************************)
(*        NrfClient::get_token over the TokenStore, deregistration         *)
(***************************************************************************)
\* Task t of TokenCallers runs TokenStore::get as getter t and, when that gives
\* no entry, TokenStore::set as setter t.

\* the service the token is asked for: ServiceName::NnrfNfm
ServiceKey == "NnrfNfm"

\* the task whose get_token is the set_auth_token of deregister_nf_instance
DeregCaller == 3

\* get_token: `self.nf_token_store.get(..).await?` and the match on the entry,
\* then `set(..).await?`; "pending" while the call runs
GetTokenResult(t) ==
    CASE tsGet[t].pc # "returned" -> "pending"
      [] tsGet[t].ret = "Some" -> "Ok"
      [] tsGet[t].ret = "ReadError" -> "ReadError"
      [] tsSet[t].pc # "returned" -> "pending"
      [] OTHER -> tsSet[t].ret

\* set_auth_token runs get_token only when nf_config.oauth_enabled
MayGetToken(t) ==
    t = DeregCaller => (gtDereg.pc = "auth" /\ gtDereg.oauth)

InitGt == gtDereg = [pc |-> "new", oauth |-> FALSE, failedAtStart |-> FALSE, ret |-> ""]

\* get_token: the steps of nf_token_store.get(&target_service_name)
GetTokenGet(t) ==
    /\ MayGetToken(t)
    /\ GetterStep(t)
    /\ tsGet'[t].key = ServiceKey

\* get_token, `None =>`: the call of nf_token_store.set(target_service_name,
\* self.authenticaion_request(..)) begins
GetTokenSet(t) ==
    /\ tsGet[t].pc = "returned"
    /\ tsGet[t].ret = "None"
    /\ SetNew(t)
    /\ tsSet'[t].key = ServiceKey

\* the rest of that set; the supplied future is the access-token request,
\* sent when the future is first polled
GetTokenSetStep(t) ==
    /\ tsSet[t].pc # "idle"
    /\ SetterStep(t)

\* the task calls get_token once more after its call has returned
GetTokenAgain(t) ==
    /\ t # DeregCaller
    /\ GetTokenResult(t) # "pending"
    /\ tsCounter <= MaxSets
    /\ tsGet' = [tsGet EXCEPT ![t] = IdleGetter]
    /\ tsSet' = [tsSet EXCEPT ![t] = IdleSetter]
    /\ UNCHANGED <<tsMap, tsCounter>>
    /\ UNCHANGED tsOthers

\* deregister_nf_instance up to set_auth_token: the request is prepared and
\* nf_config.load().oauth_enabled is read
DeregisterPrepare(oauth) ==
    /\ gtDereg.pc = "new"
    /\ gtDereg' = [pc |-> "auth", oauth |-> oauth,
                   failedAtStart |-> tsMap[ServiceKey].kind = "Failed", ret |-> ""]
    /\ UNCHANGED gtOthers

\* deregister_nf_instance: set_auth_token returned Ok and the DELETE is sent
\* with self.client.execute(request). With oauth_enabled that is get_token
\* Ok and the token inserted as the AUTHORIZATION header; without it
\* set_auth_token does nothing and returns Ok.
DeregisterExecute ==
    /\ gtDereg.pc = "auth"
    /\ gtDereg.oauth => GetTokenResult(DeregCaller) = "Ok"
    /\ gtDereg' = [gtDereg EXCEPT !.pc = "sent", !.ret = "Ok"]
    /\ UNCHANGED gtOthers

\* set_auth_token: the error that `?` hands to deregister_nf_instance: the
\* error of get_token, or, after get_token Ok, the TokenParsingError of
\* `token.try_into()?` for "Bearer " + access_token that is no header value
\* (the text of the token is not modelled: either outcome can follow an Ok)
SetAuthTokenError(result) ==
    IF result = "Ok" THEN "TokenParsingError" ELSE result

\* deregister_nf_instance: `set_auth_token(..).await?` returns the error and
\* client.execute is not reached
DeregisterFail ==
    /\ gtDereg.pc = "auth"
    /\ gtDereg.oauth
    /\ GetTokenResult(DeregCaller) # "pending"
    /\ gtDereg' = [gtDereg EXCEPT !.pc = "failed",
                       !.ret = SetAuthTokenError(GetTokenResult(DeregCaller))]
    /\ UNCHANGED gtOthers

NextGt ==
    \/ \E t \in TokenCallers : GetTokenGet(t)
    \/ \E t \in TokenCallers : GetTokenSet(t)
    \/ \E t \in TokenCallers : GetTokenSetStep(t)
    \/ \E t \in TokenCallers : GetTokenAgain(t)
    \/ \E oauth \in BOOLEAN : DeregisterPrepare(oauth)
    \/ DeregisterExecute
    \/ DeregisterFail

(***************************************************************************)
(*                 GMM state machine of one UE (nas/gmm.rs)                *)
(***************************************************************************)
\* Number of GMM messages handed to the state machine of the UE.
MaxEvents == 3

\* nas_types::RegistrationType
InitialRegistration == "InitialRegistration"
RegistrationTypes ==
    {InitialRegistration, "MobilityRegistrationUpdating", "EmergencyRegistration"}

\* nas_types::MobileIdentity, and the UeContext field each one is stored in
MobileIdentities == {"NoIdentity", "Suci", "FiveGGuti", "Imei", "FiveGSTmsi",
                     "Imeisv", "MacAddress", "Eui64"}

IdentityField(identity) ==
    CASE identity = "Suci" -> "suci"
      [] identity = "FiveGGuti" -> "guti"
      [] identity \in {"Imei", "Imeisv"} -> "pei"
      [] identity = "FiveGSTmsi" -> "tmsi"
      [] identity = "MacAddress" -> "mac_addr"
      [] OTHER -> "none"

\* initial_registration_handler, the assignment of the identity:
\* NonEmptyString::new(..).ok() and NonZeroU32::new(..) give None for an
\* empty string and for a 5G-TMSI of 0 (a blank identity), which clears the
\* field, and Some for every other value
StoreIdentity(ue, identity, blank) ==
    CASE IdentityField(identity) = "none" -> ue
      [] blank -> ue \ {IdentityField(identity)}
      [] OTHER -> ue \cup {IdentityField(identity)}

\* GmmMessage: the events of the state machine; blank: the value of the
\* mobile identity is the empty string or 0
RegistrationRequests ==
    [kind : {"RegistrationRequest"}, type : RegistrationTypes,
     identity : MobileIdentities, blank : BOOLEAN, capability : BOOLEAN]

GmmEvents ==
    RegistrationRequests \cup
    {[kind |-> k, type |-> "", identity |-> "", blank |-> FALSE,
      capability |-> FALSE] : k \in {"GmmStatus", "AuthenticationResponse"}}

NoEvent == [kind |-> "none", type |-> "", identity |-> "", blank |-> FALSE,
            capability |-> FALSE]

\* NasRegistrationRequest::handle: every registration type but
\* InitialRegistration is todo!()
TypeImplemented(type) == type = InitialRegistration

\* initial_registration_handler: the match on the mobile identity; Eui64 is
\* todo!()
IdentityImplemented(identity) == identity # "Eui64"

\* initial_registration_handler, `if let Some(ue_security_capability)`: Ok(())
\* with the capability, else Err(FiveGmmCauseError(protocol_error_unspecified))
CapabilityCheck(event) == IF event.capability THEN "Ok" ELSE "Err"

\* NasRegistrationRequest::handle in all: "panic", "Err" or "Ok"
HandleRegistration(event) ==
    IF ~TypeImplemented(event.type) \/ ~IdentityImplemented(event.identity)
    THEN "panic"
    ELSE CapabilityCheck(event)

\* NasAuthenticationRequest::build is todo!()
BuildAuthenticationRequest == "panic"

InitGm ==
    /\ gmState = "deregistered"
    /\ gmRun = "running"
    /\ gmNas = [registration_request |-> FALSE, ue_security_capabliity |-> FALSE]
    /\ gmUe = {}
    /\ gmLast = [event |-> NoEvent, response |-> "none"]
    /\ gmN = 0
    /\ gmBuilt = 0

\* NasContext::deregistered, the arms GmmStatus and `_`: Handled
DeregisteredHandled(event) ==
    /\ gmRun = "running"
    /\ gmState = "deregistered"
    /\ gmN < MaxEvents
    /\ event.kind # "RegistrationRequest"
    /\ gmN' = gmN + 1
    /\ gmLast' = [event |-> event, response |-> "Handled"]
    /\ UNCHANGED <<gmState, gmRun, gmNas, gmUe, gmBuilt>>
    /\ UNCHANGED gmOthers

\* NasContext::deregistered, the arm RegistrationRequest: inner.handle(self,
\* context).await, then NasAuthenticationRequest::build on Ok
DeregisteredRegistration(event) ==
    /\ gmRun = "running"
    /\ gmState = "deregistered"
    /\ gmN < MaxEvents
    /\ event.kind = "RegistrationRequest"
    /\ gmN' = gmN + 1
    /\ LET res == HandleRegistration(event)
           kept == TypeImplemented(event.type)
           stored == kept /\ IdentityImplemented(event.identity)
           built == res = "Ok"
       IN  /\ gmNas' = [registration_request |-> gmNas.registration_request \/ kept,
                        ue_security_capabliity |->
                            \/ gmNas.ue_security_capabliity
                            \/ (stored /\ event.capability)]
           /\ gmUe' = IF stored
                      THEN StoreIdentity(gmUe, event.identity, event.blank)
                      ELSE gmUe
           /\ gmBuilt' = IF built THEN gmBuilt + 1 ELSE gmBuilt
           /\ gmRun' = IF res = "panic" \/ (built /\ BuildAuthenticationRequest = "panic")
                       THEN "panicked" ELSE "running"
           /\ gmLast' = [event |-> event,
                         response |-> IF gmRun' = "panicked" THEN "panic" ELSE "Handled"]
    /\ UNCHANGED gmState
    /\ UNCHANGED gmOthers

NextGm ==
    \/ \E event \in GmmEvents : DeregisteredHandled(event)
    \/ \E event \in GmmEvents : DeregisteredRegistration(event)

(***************************************************************************)
(*                resolve_ran_name (ngap/core/utils.rs)                    *)
(***************************************************************************)
\* Number of NG Setup Requests whose name is resolved.
MaxResolves == 2

\* the names a request carries
RanNames == {"a", "b", "c"}

\* Option::None of a name and of the ExtendedRanNodeName
NoName == "None"

OptNames == RanNames \cup {NoName}

\* Option<ExtendedRanNodeName>
ExtendedRanNodeNames ==
    [ran_node_name_visible_string : OptNames, ran_node_name_utf8_string : OptNames]

NoExtended == [ran_node_name_visible_string |-> NoName,
               ran_node_name_utf8_string |-> NoName, absent |-> TRUE]

OptExtended == ExtendedRanNodeNames \cup {NoExtended}

EmptyString == ""

\* resolve_ran_name: the outer and the inner match, arm by arm
resolve_ran_name(ran_node_name, extended_ran_node_name) ==
    CASE ran_node_name # NoName /\ extended_ran_node_name = NoExtended ->
            ran_node_name
      [] extended_ran_node_name # NoExtended ->
            LET visible == extended_ran_node_name.ran_node_name_visible_string
                utf8 == extended_ran_node_name.ran_node_name_utf8_string
            IN  CASE visible # NoName /\ utf8 = NoName -> visible
                  [] utf8 # NoName -> utf8
                  [] OTHER -> EmptyString
      [] OTHER -> EmptyString

InitRn ==
    /\ rnCall = [ran_node_name |-> NoName, extended_ran_node_name |-> NoExtended,
                 name |-> EmptyString]
    /\ rnN = 0

\* NgSetupRequest handle_request: `let name = resolve_ran_name(ran_node_name,
\* extended_ran_node_name)`
ResolveRanName(ran, ext) ==
    /\ rnN < MaxResolves
    /\ rnN' = rnN + 1
    /\ rnCall' = [ran_node_name |-> ran, extended_ran_node_name |-> ext,
                  name |-> resolve_ran_name(ran, ext)]
    /\ UNCHANGED rnOthers

NextRn == \E ran \in OptNames, ext \in OptExtended : ResolveRanName(ran, ext)

(***************************************************************************)
(*        NG setup handler: the configuration behind its response          *)
(***************************************************************************)
\* Number of NG Setup Requests handled while the configuration is committed.
MaxSetups == 2

\* the fields of Configuration the handler uses, in the order of its
\* get_config calls
SetupFields == <<"support_tai_list", "name", "served_guami_list", "plmn_support_list">>

IdleSetup == [pc |-> "idle", at |-> 0, found |-> FALSE,
              loaded |-> [i \in 1..Len(SetupFields) |-> BootConfig]]

InitSn ==
    /\ snH = IdleSetup
    /\ snN = 0

\* every field is read through a get_config of its own
LoadPerField(loaded, i, store) == store

\* handle_request up to and including get_global_app_context().await
SetupBegin ==
    /\ snH.pc \in {"idle", "Success", "Failure"}
    /\ snN < MaxSetups
    /\ snH' = [IdleSetup EXCEPT !.pc = "load", !.at = 1]
    /\ UNCHANGED snN
    /\ UNCHANGED snOthers

\* `&app_context.get_config().support_tai_list` and the search in it: no
\* TAI of the request is in the list and the handler returns the failure
\* UnknownPlmnOrSnpn, or one is found
SetupCheckTai(found) ==
    /\ snH.pc = "load"
    /\ snH.at = 1
    /\ snH' = [snH EXCEPT !.loaded[1] = LoadPerField(snH.loaded, 1, cfgStore),
                          !.found = found,
                          !.at = IF found THEN 2 ELSE 1,
                          !.pc = IF found THEN "load" ELSE "Failure"]
    /\ snN' = IF found THEN snN ELSE snN + 1
    /\ UNCHANGED snOthers

\* the success case: `&app_context.get_config().name`, `.served_guami_list`,
\* `.plmn_support_list`, each through its own get_config; after the last the
\* response is built
SetupLoadField ==
    /\ snH.pc = "load"
    /\ snH.at > 1
    /\ snH' = [snH EXCEPT !.loaded[snH.at] = LoadPerField(snH.loaded, snH.at, cfgStore),
                          !.at = IF snH.at < Len(SetupFields) THEN snH.at + 1 ELSE @,
                          !.pc = IF snH.at < Len(SetupFields) THEN "load" ELSE "Success"]
    /\ snN' = IF snH.at < Len(SetupFields) THEN snN ELSE snN + 1
    /\ UNCHANGED snOthers

NextSn ==
    \/ CommitClone
    \/ CommitApply
    \/ CommitStore
    \/ SetupBegin
    \/ \E found \in BOOLEAN : SetupCheckTai(found)
    \/ SetupLoadField

(***************************************************************************)
(*      ContextQueue: schedule_and_wait from inside a running closure      *)
(***************************************************************************)
\* Two ContextQueues. The call "outer" runs on queue 1 and its closure's
\* future awaits a schedule_and_wait of its own, the call "inner", on queue
\* 1 again or on queue 2; the call "other" is made by another task on queue 2.
RqQueues == {1, 2}

RqCalls == {"outer", "inner", "other"}

RqQueueOf(c) ==
    CASE c = "outer" -> 1
      [] c = "other" -> 2
      [] OTHER -> rqTarget

\* tokio::sync::Mutex::lock: taken when free, else the requester queues up
RqLock(mutex, who) == IF mutex = "free" THEN who ELSE mutex
RqEnqueue(mutex, wait, who) == IF mutex = "free" THEN wait ELSE Append(wait, who)

\* MutexGuard drop: the lock goes to the first waiter
RqUnlock(wait) == IF wait = <<>> THEN "free" ELSE Head(wait)
RqDequeue(wait) == IF wait = <<>> THEN wait ELSE Tail(wait)

\* process_queue: `queue` (the MutexGuard) lives to the end of the loop body,
\* across fut.await
GuardDroppedBeforeAwait(wait) == RqUnlock(wait)
GuardAcrossAwait(wait) == "proc"

InitRq ==
    /\ rqCaller = [c \in RqCalls |-> "idle"]
    /\ rqFut = [c \in RqCalls |-> "new"]
    /\ rqMutex = [q \in RqQueues |-> "free"]
    /\ rqWait = [q \in RqQueues |-> <<>>]
    /\ rqWrite = [q \in RqQueues |-> "none"]
    /\ rqActive = [q \in RqQueues |-> FALSE]
    /\ rqItems = [q \in RqQueues |-> <<>>]
    /\ rqProc = [q \in RqQueues |-> "off"]
    /\ rqCur = [q \in RqQueues |-> "none"]
    /\ rqTarget = 0

\* schedule_and_wait: oneshot::channel, enqueue_and_get_result, and
\* push_future up to self.queue.lock()
RqSchedule(c) ==
    /\ c \in {"outer", "other"}
    /\ rqCaller[c] = "idle"
    /\ LET q == RqQueueOf(c)
       IN  /\ rqMutex' = [rqMutex EXCEPT ![q] = RqLock(@, c)]
           /\ rqWait' = [rqWait EXCEPT ![q] = RqEnqueue(rqMutex[q], @, c)]
    /\ rqCaller' = [rqCaller EXCEPT ![c] = "lock"]
    /\ UNCHANGED <<rqFut, rqWrite, rqActive, rqItems, rqProc, rqCur, rqTarget>>
    /\ UNCHANGED rqOthers

\* push_future with the lock: push_back, the processor is spawned when the
\* flag is clear, the guard is dropped; the caller goes on to rx.await
RqPush(c) ==
    /\ rqCaller[c] = "lock"
    /\ LET q == RqQueueOf(c)
       IN  /\ rqMutex[q] = c
           /\ rqItems' = [rqItems EXCEPT ![q] = Append(@, c)]
           /\ rqActive' = [rqActive EXCEPT ![q] = TRUE]
           /\ rqProc' = [rqProc EXCEPT ![q] = IF rqActive[q] THEN @ ELSE "spawned"]
           /\ rqMutex' = [rqMutex EXCEPT ![q] = RqUnlock(rqWait[q])]
           /\ rqWait' = [rqWait EXCEPT ![q] = RqDequeue(@)]
    /\ rqCaller' = [rqCaller EXCEPT ![c] = "rx"]
    /\ rqFut' = [rqFut EXCEPT ![c] = "queued"]
    /\ UNCHANGED <<rqWrite, rqCur, rqTarget>>
    /\ UNCHANGED rqOthers

\* process_queue: self.queue.lock() at the top of the loop
RqProcLock(q) ==
    /\ rqProc[q] = "spawned"
    /\ rqMutex' = [rqMutex EXCEPT ![q] = RqLock(@, "proc")]
    /\ rqWait' = [rqWait EXCEPT ![q] = RqEnqueue(rqMutex[q], @, "proc")]
    /\ rqProc' = [rqProc EXCEPT ![q] = "lock"]
    /\ UNCHANGED <<rqCaller, rqFut, rqWrite, rqActive, rqItems, rqCur, rqTarget>>
    /\ UNCHANGED rqOthers

\* process_queue with the lock: an empty queue clears the flag and ends the
\* task; else pop_front and fut.await begins, the guard still alive
RqProcPop(q) ==
    /\ rqProc[q] = "lock"
    /\ rqMutex[q] = "proc"
    /\ IF rqItems[q] = <<>>
       THEN /\ rqActive' = [rqActive EXCEPT ![q] = FALSE]
            /\ rqProc' = [rqProc EXCEPT ![q] = "off"]
            /\ rqMutex' = [rqMutex EXCEPT ![q] = RqUnlock(rqWait[q])]
            /\ rqWait' = [rqWait EXCEPT ![q] = RqDequeue(@)]
            /\ UNCHANGED <<rqItems, rqCur, rqFut>>
       ELSE /\ rqCur' = [rqCur EXCEPT ![q] = Head(rqItems[q])]
            /\ rqItems' = [rqItems EXCEPT ![q] = Tail(@)]
            /\ rqFut' = [rqFut EXCEPT ![Head(rqItems[q])] = "popped"]
            /\ rqProc' = [rqProc EXCEPT ![q] = "await"]
            /\ rqMutex' = [rqMutex EXCEPT ![q] = GuardAcrossAwait(rqWait[q])]
            /\ rqWait' = [rqWait EXCEPT ![q] =
                             IF rqMutex'[q] = "proc" THEN @ ELSE RqDequeue(@)]
            /\ UNCHANGED rqActive
    /\ UNCHANGED <<rqCaller, rqWrite, rqTarget>>
    /\ UNCHANGED rqOthers

\* the boxed future: context.write().await
RqClosureWrite(c) ==
    /\ rqFut[c] = "popped"
    /\ rqWrite[RqQueueOf(c)] = "none"
    /\ rqWrite' = [rqWrite EXCEPT ![RqQueueOf(c)] = c]
    /\ rqFut' = [rqFut EXCEPT ![c] = "running"]
    /\ UNCHANGED <<rqCaller, rqMutex, rqWait, rqActive, rqItems, rqProc, rqCur, rqTarget>>
    /\ UNCHANGED rqOthers

\* the closure of "outer": its future calls schedule_and_wait on the queue
\* `target` and awaits it; the nested call asks for that queue's Mutex
RqClosureNested(target) ==
    /\ rqFut["outer"] = "running"
    /\ rqTarget = 0
    /\ rqTarget' = target
    /\ rqCaller' = [rqCaller EXCEPT !["inner"] = "lock"]
    /\ rqMutex' = [rqMutex EXCEPT ![target] = RqLock(@, "inner")]
    /\ rqWait' = [rqWait EXCEPT ![target] = RqEnqueue(rqMutex[target], @, "inner")]
    /\ UNCHANGED <<rqFut, rqWrite, rqActive, rqItems, rqProc, rqCur>>
    /\ UNCHANGED rqOthers

\* the boxed future: future.await completes, tx.send(output), the write
\* guard is dropped; the future of "outer" completes when its nested call
\* has returned
RqClosureSend(c) ==
    /\ rqFut[c] = "running"
    /\ c = "outer" => rqCaller["inner"] = "returned"
    /\ rqFut' = [rqFut EXCEPT ![c] = "done"]
    /\ rqWrite' = [rqWrite EXCEPT ![RqQueueOf(c)] = "none"]
    /\ UNCHANGED <<rqCaller, rqMutex, rqWait, rqActive, rqItems, rqProc, rqCur, rqTarget>>
    /\ UNCHANGED rqOthers

\* process_queue: fut.await has completed, the guard is dropped at the end
\* of the loop body and the loop starts again
RqProcLoop(q) ==
    /\ rqProc[q] = "await"
    /\ rqFut[rqCur[q]] = "done"
    /\ rqCur' = [rqCur EXCEPT ![q] = "none"]
    /\ rqProc' = [rqProc EXCEPT ![q] = "spawned"]
    /\ rqMutex' = [rqMutex EXCEPT ![q] = IF @ = "proc" THEN RqUnlock(rqWait[q]) ELSE @]
    /\ rqWait' = [rqWait EXCEPT ![q] = IF rqMutex[q] = "proc" THEN RqDequeue(@) ELSE @]
    /\ UNCHANGED <<rqCaller, rqFut, rqWrite, rqActive, rqItems, rqTarget>>
    /\ UNCHANGED rqOthers

\* schedule_and_wait: rx.await.unwrap() gives the output
RqReceive(c) ==
    /\ rqCaller[c] = "rx"
    /\ rqFut[c] = "done"
    /\ rqCaller' = [rqCaller EXCEPT ![c] = "returned"]
    /\ UNCHANGED <<rqFut, rqMutex, rqWait, rqWrite, rqActive, rqItems, rqProc, rqCur, rqTarget>>
    /\ UNCHANGED rqOthers

NextRq ==
    \/ \E c \in RqCalls : RqSchedule(c)
    \/ \E c \in RqCalls : RqPush(c)
    \/ \E q \in RqQueues : RqProcLock(q)
    \/ \E q \in RqQueues : RqProcPop(q)
    \/ \E c \in RqCalls : RqClosureWrite(c)
    \/ \E target \in RqQueues : RqClosureNested(target)
    \/ \E c \in RqCalls : RqClosureSend(c)
    \/ \E q \in RqQueues : RqProcLoop(q)
    \/ \E c \in RqCalls : RqReceive(c)

(***************************************************************************)
(*                 AtomicReader (utils/atomic-reader)                      *)
(***************************************************************************)
\* Number of threads calling read, each once.
NArReaders == 2

ArReaders == 1..NArReaders

\* AtomicReader::new(42) and replace(100), as in the loom test
OldValue == 42
NewValue == 100

\* the two allocations: the one made by new and the one made by replace
ArAllocs == {"old", "new"}

ArValue(alloc) == IF alloc = "old" THEN OldValue ELSE NewValue

\* what a read of a released allocation can give: either value, anything
\* else, or a crash
Garbage == 0
UbOutcomes == {OldValue, NewValue, Garbage, -1}

IdleArReader == [pc |-> "idle", ptr |-> "old", ret |-> Garbage, ub |-> FALSE,
                 after |-> FALSE, during |-> FALSE]

InitAr ==
    /\ arStatus = FALSE
    /\ arData = "old"
    /\ arCount = [a \in ArAllocs |-> IF a = "old" THEN 1 ELSE 0]
    /\ arFreed = [a \in ArAllocs |-> FALSE]
    /\ arR = [r \in ArReaders |-> IdleArReader]
    /\ arW = [pc |-> "idle", old_ptr |-> "old"]

\* read: self.status.load(Acquire); with the status set the read panics
ArReadStatus(r) ==
    /\ arR[r].pc = "idle"
    /\ arR' = [arR EXCEPT ![r] = [@ EXCEPT !.pc = IF arStatus THEN "panicked" ELSE "load",
                                           !.after = arW.pc = "done",
                                           !.during = arW.pc \notin {"idle", "done"}]]
    /\ UNCHANGED <<arStatus, arData, arCount, arFreed, arW>>
    /\ UNCHANGED arOthers

\* read: self.data.load(Relaxed)
ArReadLoad(r) ==
    /\ arR[r].pc = "load"
    /\ arR' = [arR EXCEPT ![r] = [@ EXCEPT !.pc = "clone", !.ptr = arData,
                                           !.during = @ \/ arW.pc \notin {"idle", "done"}]]
    /\ UNCHANGED <<arStatus, arData, arCount, arFreed, arW>>
    /\ UNCHANGED arOthers

\* read: Arc::from_raw(ptr), arc.clone(), mem::forget(arc); on an allocation
\* already released this is a use after free
ArReadClone(r) ==
    /\ arR[r].pc = "clone"
    /\ IF arFreed[arR[r].ptr]
       THEN /\ \E out \in UbOutcomes :
                  arR' = [arR EXCEPT ![r] = [@ EXCEPT !.pc = IF out = -1 THEN "crashed"
                                                                ELSE "returned",
                                                       !.ret = out, !.ub = TRUE]]
            /\ UNCHANGED arCount
       ELSE /\ arR' = [arR EXCEPT ![r] = [@ EXCEPT !.pc = "returned",
                                                   !.ret = ArValue(arR[r].ptr),
                                                   !.during = @ \/ arW.pc \notin {"idle", "done"}]]
            /\ arCount' = [arCount EXCEPT ![arR[r].ptr] = @ + 1]
    /\ UNCHANGED <<arStatus, arData, arFreed, arW>>
    /\ UNCHANGED arOthers

\* replace: self.status.swap(true, Acquire) (one replace: the status was false)
ArReplaceBegin ==
    /\ arW.pc = "idle"
    /\ arStatus' = TRUE
    /\ arW' = [arW EXCEPT !.pc = "swap"]
    /\ UNCHANGED <<arData, arCount, arFreed, arR>>
    /\ UNCHANGED arOthers

\* replace: Arc::new(t), Arc::into_raw, self.data.swap(arc_inner, Relaxed)
ArReplaceSwap ==
    /\ arW.pc = "swap"
    /\ arData' = "new"
    /\ arCount' = [arCount EXCEPT !["new"] = 1]
    /\ arW' = [pc |-> "drop", old_ptr |-> arData]
    /\ UNCHANGED <<arStatus, arFreed, arR>>
    /\ UNCHANGED arOthers

\* replace: drop(Arc::from_raw(old_ptr)): the allocation is released when
\* this was its last strong reference
ArReplaceDrop ==
    /\ arW.pc = "drop"
    /\ arCount' = [arCount EXCEPT ![arW.old_ptr] = @ - 1]
    /\ arFreed' = [arFreed EXCEPT ![arW.old_ptr] = arCount[arW.old_ptr] = 1]
    /\ arW' = [arW EXCEPT !.pc = "release"]
    /\ UNCHANGED <<arStatus, arData, arR>>
    /\ UNCHANGED arOthers

\* replace: self.status.swap(false, Release)
ArReplaceEnd ==
    /\ arW.pc = "release"
    /\ arStatus' = FALSE
    /\ arW' = [arW EXCEPT !.pc = "done"]
    /\ UNCHANGED <<arData, arCount, arFreed, arR>>
    /\ UNCHANGED arOthers

NextAr ==
    \/ \E r \in ArReaders : ArReadStatus(r)
    \/ \E r \in ArReaders : ArReadLoad(r)
    \/ \E r \in ArReaders : ArReadClone(r)
    \/ ArReplaceBegin
    \/ ArReplaceSwap
    \/ ArReplaceDrop
    \/ ArReplaceEnd

(***************************************************************************)
(*              ContextQueue: a closure that panics                        *)
(***************************************************************************)
\* closure(&mut context) or its future panics. The panic unwinds the task
\* running process_queue, which is polling the future: the boxed future is
\* dropped (the write guard and the oneshot Sender with it), then the guard
\* of the queue Mutex, and the task ends. processor_active is not touched.
ClosurePanic(c) ==
    /\ cqCall[c] = "running"
    /\ cqCall' = [cqCall EXCEPT ![c] = "panicked"]
    /\ cqWriter' = NoCall
    /\ MutexRelease
    /\ cqProc' = [p \in Procs |-> IF cqCur[p] = c THEN "off" ELSE cqProc[p]]
    /\ cqCur' = [p \in Procs |-> IF cqCur[p] = c THEN NoCall ELSE cqCur[p]]
    /\ UNCHANGED cqOthers
    /\ UNCHANGED <<cqQueue, cqActive, cqInner, cqOut, cqRes, cqPc, cqN, cqRet,
                   cqOrder>>

\* schedule_and_wait: rx.await gives Err(RecvError) because the Sender was
\* dropped, and unwrap() panics in the calling task
ReceiveClosed(c) ==
    /\ cqPc[c] = "rx"
    /\ cqCall[CurrentCall(c)] = "panicked"
    /\ cqPc' = [cqPc EXCEPT ![c] = "panicked"]
    /\ UNCHANGED cqOthers
    /\ UNCHANGED <<cqQueue, cqActive, cqMutex, cqMutexWait, cqInner, cqWriter,
                   cqCall, cqOut, cqRes, cqN, cqRet, cqProc, cqCur, cqOrder>>

\* the queue with closures that can panic
NextCQPanic ==
    \/ NextCQ
    \/ \E c \in Calls : ClosurePanic(c)
    \/ \E c \in Callers : ReceiveClosed(c)

(***************************************************************************)
(*             AppContext: commit_config from two tasks                    *)
(***************************************************************************)
\* Number of commit_config calls each of the two tasks makes.
MaxCommitCalls == 2

\* the two tasks; the update function of the first assigns nf_id, that of
\* the second assigns name
Committers == {"f", "g"}

UpdateOf(w, k, config) ==
    IF w = "f" THEN [config EXCEPT !.nf_id = k] ELSE [config EXCEPT !.name = k]

InitCc ==
    /\ ccStore = BootConfig
    /\ ccW = [w \in Committers |-> [pc |-> "idle", new |-> BootConfig, n |-> 0]]

\* commit_config: let mut new_config = self.get_config().as_ref().clone()
CommitConfigClone(w) ==
    /\ ccW[w].pc = "idle"
    /\ ccW[w].n < MaxCommitCalls
    /\ ccW' = [ccW EXCEPT ![w] = [@ EXCEPT !.pc = "cloned", !.new = ccStore]]
    /\ UNCHANGED ccStore
    /\ UNCHANGED ccOthers

\* commit_config: update_fn(&mut new_config)
CommitConfigApply(w) ==
    /\ ccW[w].pc = "cloned"
    /\ ccW' = [ccW EXCEPT ![w] = [@ EXCEPT !.pc = "applied",
                                           !.new = UpdateOf(w, ccW[w].n + 1, @)]]
    /\ UNCHANGED ccStore
    /\ UNCHANGED ccOthers

\* commit_config: self.config.store(Arc::new(new_config)), then it returns
CommitConfigStore(w) ==
    /\ ccW[w].pc = "applied"
    /\ ccStore' = ccW[w].new
    /\ ccW' = [ccW EXCEPT ![w] = [@ EXCEPT !.pc = "idle", !.n = @ + 1]]
    /\ UNCHANGED ccOthers

NextCc ==
    \/ \E w \in Committers : CommitConfigClone(w)
    \/ \E w \in Committers : CommitConfigApply(w)
    \/ \E w \in Committers : CommitConfigStore(w)

(***************************************************************************)
(*          TokenStore: the task awaiting set is dropped                   *)
(***************************************************************************)
\* The future of set is dropped at `future.await`, its only await point after
\* the upsert: nothing of set runs any more, the entry keeps the Updating
\* state and the Notify of the call is dropped without notify_waiters.
SetDrop(s) ==
    /\ tsSet[s].pc = "await"
    /\ tsSet' = [tsSet EXCEPT ![s] = [@ EXCEPT !.pc = "dropped"]]
    /\ UNCHANGED <<tsMap, tsCounter>>
    /\ UNCHANGED tsGet
    /\ UNCHANGED tsOthers

NextTSDrop ==
    \/ NextTS
    \/ \E s \in Setters : SetDrop(s)

(***************************************************************************)
(*                             Specifications                              *)
(***************************************************************************)
Init == InitCQ /\ InitTS /\ InitCfg /\ InitNg /\ InitUe /\ InitAs /\ InitCm /\ InitNr /\ InitApp /\ InitCv /\ InitRd /\ InitGt /\ InitGm /\ InitRn /\ InitSn /\ InitRq /\ InitAr /\ InitCc

SpecCQ == Init /\ [][NextCQ]_vars

\* The executor is fair to every task: callers, the processor and the future
\* the processor is polling.
SpecCQFair ==
    /\ Init
    /\ [][NextCQ]_vars
    /\ \A c \in Callers : WF_vars(CallerStep(c))
    /\ \A p \in Procs : WF_vars(ProcStep(p))
    /\ \A c \in Calls : WF_vars(ClosureStep(c))

SpecCQDrop == Init /\ [][NextCQDrop]_vars

\* The executor is fair to every task that exists; nothing obliges a task to
\* be dropped.
SpecCQDropFair ==
    /\ Init
    /\ [][NextCQDrop]_vars
    /\ \A c \in Callers : WF_vars(CallerStep(c))
    /\ \A p \in Procs : WF_vars(ProcStep(p))
    /\ \A c \in Calls : WF_vars(ClosureStep(c))

SpecTS == Init /\ [][NextTS]_vars

\* every task that calls set or get keeps being polled
SpecTSFair ==
    /\ SpecTS
    /\ \A s \in Setters : WF_vars(SetterStep(s))
    /\ \A g \in Getters : WF_vars(GetterStep(g))

SpecCfg == Init /\ [][NextCfg]_vars

SpecNg == Init /\ [][NextNg]_vars

\* every task of the engine that can take a step eventually takes one
SpecNgFair == SpecNg /\ WF_vars(NextNg)

SpecNgSend == Init /\ [][NextNgSend]_vars

SpecUe == Init /\ [][NextUe]_vars

SpecAs == Init /\ [][NextAs]_vars

SpecCmSeq == Init /\ [][NextCmSeq]_vars

SpecCm == Init /\ [][NextCm]_vars

SpecTSChurn == Init /\ [][NextTSChurn]_vars

SpecNr == Init /\ [][NextNr]_vars

SpecApp == Init /\ [][NextApp]_vars

\* The executor polls run while one of its branches can go on; nothing obliges
\* a signal to arrive.
SpecAppFair ==
    /\ Init
    /\ [][NextApp]_vars
    /\ WF_vars(SignalCancel \/ SignalTaskEnds)
    /\ WF_vars(\E ok \in BOOLEAN : Initialize(ok))
    /\ WF_vars(RegisterNf)
    /\ WF_vars(\E ok \in BOOLEAN : RegisterNfReturns(ok))
    /\ WF_vars(StartReturns)
    /\ WF_vars(SelectHandle \/ SelectBlock)
    /\ WF_vars(\E ok \in BOOLEAN : DeregisterNfReturns(ok))

SpecCv == Init /\ [][NextCv]_vars

SpecRd == Init /\ [][NextRd]_vars

SpecGt == Init /\ [][NextGt]_vars

SpecGm == Init /\ [][NextGm]_vars

SpecRn == Init /\ [][NextRn]_vars

SpecSn == Init /\ [][NextSn]_vars

SpecRq == Init /\ [][NextRq]_vars

\* every task is polled again when it can go on (tokio's scheduler)
SpecRqFair ==
    /\ SpecRq
    /\ \A c \in RqCalls :
          WF_vars(RqSchedule(c) \/ RqPush(c) \/ RqClosureWrite(c) \/ RqClosureSend(c)
                    \/ RqReceive(c))
    /\ \A q \in RqQueues : WF_vars(RqProcLock(q) \/ RqProcPop(q) \/ RqProcLoop(q))
    /\ \A target \in RqQueues : WF_vars(RqClosureNested(target))

SpecAr == Init /\ [][NextAr]_vars

SpecCQPanic == Init /\ [][NextCQPanic]_vars

\* The executor is fair to every task; nothing obliges a closure to panic.
SpecCQPanicFair ==
    /\ SpecCQPanic
    /\ \A c \in Callers : WF_vars(CallerStep(c) \/ ReceiveClosed(c))
    /\ \A p \in Procs : WF_vars(ProcStep(p))
    /\ \A c \in Calls : WF_vars(ClosureStep(c))

SpecCc == Init /\ [][NextCc]_vars

SpecTSDrop == Init /\ [][NextTSDrop]_vars

\* every task that exists keeps being polled; nothing obliges a drop
SpecTSDropFair ==
    /\ SpecTSDrop
    /\ \A s \in Setters : WF_vars(SetterStep(s))
    /\ \A g \in Getters : WF_vars(GetterStep(g))

(***************************************************************************)
(*                                 Claims                                  *)
(***************************************************************************)

(***************************************************************************)
(* C1: at most one closure executes against the context at any time, and a *)
(* closure is started only after the previously dequeued closure has       *)
(* finished and released the context.                                      *)
(***************************************************************************)
Executing == {c \in Calls : cqCall[c] \in {"running", "ran", "sent"}}
InFlight == {c \in Calls : cqCall[c] \in {"started", "running", "ran", "sent"}}

C1_SerializedMutation ==
    /\ Cardinality(Executing) <= 1
    /\ Cardinality(InFlight) <= 1
    /\ \A c \in Executing : cqWriter = c

\* a closure is executing while another caller's closure waits in the queue
C1_Witness ==
    /\ Executing # {}
    /\ cqQueue # <<>>
    /\ Len(cqInner) >= 1

(***************************************************************************)
(* C2: closures of one queue run in FIFO order: when A was appended before *)
(* B, A is complete before B starts; the calls of one caller return in     *)
(* call order.                                                             *)
(***************************************************************************)
C2_FifoOrder ==
    /\ IsPrefix(cqInner, cqOrder)
    /\ \A i, j \in 1..Len(cqOrder) :
          (i < j /\ cqCall[cqOrder[j]] \notin {"queued"})
              => cqCall[cqOrder[i]] = "done"
    /\ \A c \in Callers : \A i \in 1..Len(cqRet[c]) : cqRet[c][i][1] = <<c, i>>

\* two closures of different callers were queued together and both have run
C2_Witness ==
    /\ Len(cqInner) >= 2
    /\ cqInner[1][1] # cqInner[2][1]
    /\ \E c \in Callers : cqPc[c] = "rx" /\ cqCall[CurrentCall(c)] = "queued"

(***************************************************************************)
(* C3: under fair scheduling every schedule_and_wait call returns, with    *)
(* the output of its own closure, and no closure is left in the queue      *)
(* while no processor task exists.                                         *)
(***************************************************************************)
NoLostWakeup ==
    (cqQueue # <<>> /\ cqMutex[1] # "caller")
        => (cqActive /\ \E p \in Procs : cqProc[p] # "off")

ReturnsOwnOutput ==
    \A c \in Callers : \A i \in 1..Len(cqRet[c]) :
        /\ cqRet[c][i] = cqOut[<<c, i>>]
        /\ cqRet[c][i][1] = <<c, i>>
        /\ cqInner[cqRet[c][i][2]] = <<c, i>>

C3_EveryCallReturns ==
    /\ []NoLostWakeup
    /\ []ReturnsOwnOutput
    /\ \A c \in Callers : (cqPc[c] # "idle") ~> (cqPc[c] = "idle")
    /\ <>(\A c \in Callers : cqN[c] = MaxCalls)

\* a processor has drained the queue and exited, and a later call returned
C3_Witness ==
    /\ \A c \in Callers : cqN[c] = MaxCalls
    /\ \A p \in Procs : cqProc[p] = "off"
    /\ ~cqActive
    /\ \E c \in Callers : Len(cqRet[c]) = MaxCalls

(***************************************************************************)
(* C4: for one key at most one future supplied to set is in flight at any  *)
(* time; a set that starts while another set on the key has not published  *)
(* returns UpdateAlreadyInProgress without awaiting its future.            *)
(***************************************************************************)
FuturesInFlight(k) == {s \in Setters : tsSet[s].pc = "await" /\ tsSet[s].key = k}

C4_SingleFlight == \A k \in Keys : Cardinality(FuturesInFlight(k)) <= 1

(***************************************************************************)
(* C5: a read running concurrently with commit_config observes one         *)
(* complete snapshot, either the one published when the read began or one  *)
(* published while it ran, never a mix; a read that begins after a commit  *)
(* has returned observes that commit's assignment, as long as no           *)
(* update_config has replaced the configuration since.                     *)
(***************************************************************************)
Observed(r) == [nf_id |-> cfgR[r].nf_id, name |-> cfgR[r].name]

C5_NoTornRead ==
    \A r \in Readers :
        cfgR[r].pc = "done" =>
            /\ Observed(r) \in cfgR[r].window
            /\ ~cfgR[r].reset =>
                  /\ Observed(r).nf_id >= cfgR[r].since
                  /\ Observed(r).name >= cfgR[r].since

\* a read overlapped a commit (two snapshots in its history) and completed,
\* and another read began after the last commit had returned
C5_Witness ==
    /\ \E r \in Readers : cfgR[r].pc = "done" /\ Cardinality(cfgR[r].window) >= 2
    /\ \E r \in Readers :
          /\ cfgR[r].pc = "done"
          /\ cfgR[r].since = MaxCommits
          /\ ~cfgR[r].reset

(***************************************************************************)
(* C6: the gNB map never holds two GnbContexts for one GlobalRanNodeId; an *)
(* NG Setup Request whose id is already registered is answered with        *)
(* NgSetupFailure, cause Protocol/SemanticError, registers nothing, and    *)
(* the registered GnbContext stays as it is.                               *)
(***************************************************************************)
GnbUnique == \A e1, e2 \in ngGnbs : e1.id = e2.id => e1 = e2

\* the last PDU written on the Tnla of an association, if any
LastWritten(a) == IF ngWire[a] = <<>> THEN NoPdu ELSE ngWire[a][Len(ngWire[a])]

DuplicateRejected ==
    \A a \in Assocs :
        ngA[a].wasReg =>
            /\ ngA[a].pc \notin {"tai", "insert", "spawn"}
            /\ ~ngA[a].ok
            /\ ngA[a].pc # "check" => ngA[a].resp = SemanticFailurePdu
            /\ \A e \in ngGnbs : e.id = ngA[a].req.id => e.tnla # a

RegisteredKept == \A e \in ngGnbs : e \in ngGnbs'

C6_GnbUniqueness ==
    /\ []GnbUnique
    /\ []DuplicateRejected
    /\ [][RegisteredKept]_vars

\* an association asked for a registered id and the failure went out on its Tnla
C6_Witness ==
    \E a \in Assocs :
        /\ ngA[a].wasReg
        /\ ngA[a].pc \in {"read", "returned"}
        /\ LastWritten(a) = SemanticFailurePdu
        /\ \E e \in ngGnbs : e.id = ngA[a].req.id /\ e.tnla # a

(***************************************************************************)
(* C7: on every association the NgSetupResponse is written and the         *)
(* GnbContext is in the gNB map before the reader runs and before any PDU  *)
(* is routed; an association whose NG setup never succeeded gets no reader.*)
(***************************************************************************)
\* The NgSetupResponse is on the wire.  What was written after it are
\* responses of the reader's tasks, at most one per message routed, and
\* PDUs sent through send_downlink_nas_transport or send_data; no
\* DownlinkNasTransport was written before it.
ResponseBeforeRouting(a) ==
    \E i \in 1..Len(ngWire[a]) :
        /\ ngWire[a][i] = NgSetupResponsePdu
        /\ LET answers == {j \in (i + 1)..Len(ngWire[a]) :
                              ngWire[a][j] \in {SemanticErrorPdu, DecodeErrorPdu}}
               sent == {j \in (i + 1)..Len(ngWire[a]) :
                           ngWire[a][j] \in {DownlinkNasTransportPdu, RawData}}
           IN  /\ Cardinality(answers) + Cardinality(ngTasks[a]) <= ngRouted[a]
               /\ answers \cup sent = (i + 1)..Len(ngWire[a])
        /\ \A j \in 1..(i - 1) : ngWire[a][j] # DownlinkNasTransportPdu

C7_SetupBeforeReader ==
    \A a \in Assocs :
        (ngReader[a] # "off" \/ ngRouted[a] > 0 \/ ngTasks[a] # {}) =>
            /\ ngA[a].setupOk
            /\ ngA[a].resp = NgSetupResponsePdu
            /\ ResponseBeforeRouting(a)
            /\ \E e \in ngGnbs : e.tnla = a /\ e.id = ngA[a].req.id

\* one association routes a PDU after a failed first attempt, a
\* DownlinkNasTransport is sent on it and its task writes the ErrorIndication
\* after the NgSetupResponse; another association has used up its attempts
\* and has no reader
C7_Witness ==
    /\ \E a \in Assocs :
          /\ ngRouted[a] > 0
          /\ ngA[a].attempt > 1
          /\ ngTasks[a] = {}
          /\ \E i \in 1..Len(ngWire[a]) : ngWire[a][i] = DownlinkNasTransportPdu
          /\ LastWritten(a) = SemanticErrorPdu
    /\ \E a \in Assocs :
          /\ ngA[a].pc = "returned"
          /\ ~ngA[a].setupOk
          /\ ngReader[a] = "off"

(***************************************************************************)
(* C8: when InitialUeMessages with one ran_ue_ngap_id are handled          *)
(* concurrently, one UeContext is created for the id, only the winner's    *)
(* NAS PDU is dispatched to it, and every other handler fails with         *)
(* UeContextAlreadyExists and returns no response PDU.                     *)
(***************************************************************************)
Winner(h) == \E e \in ueQueues : e.by = h

Finished(h) == ueH[h].pc \in {"done", "panicked"}

C8_RanUeIdUniqueUnderRace ==
    /\ \A e1, e2 \in ueQueues : e1.ran = e2.ran => e1 = e2
    /\ \A d \in ueNas : \E e \in ueQueues : e.ran = d.ran /\ e.by = d.by
    /\ \A h \in Handlers :
          (Finished(h) /\ ~Winner(h)) =>
              /\ ueH[h].ret = "UeContextAlreadyExists"
              /\ ueH[h].resp = NoPdu

(***************************************************************************)
(* C9: an InitialUeMessage whose ran_ue_ngap_id already has a UeContext    *)
(* fails with UeContextAlreadyExists and no PDU, allocates no AmfUeNgapId, *)
(* does not process its NAS PDU, and leaves the UeContext unchanged.       *)
(***************************************************************************)
ExistingRejected ==
    \A h \in Handlers :
        (ueH[h].existed /\ ueH[h].pc # "contains") =>
            /\ ueH[h].pc = "done"
            /\ ueH[h].ret = "UeContextAlreadyExists"
            /\ ueH[h].resp = NoPdu
            /\ ueH[h].amf = 0
            /\ \A i \in 1..Len(ueAlloc) : ueAlloc[i].by # h
            /\ \A d \in ueNas : d.by # h

UeContextsKept == \A e \in ueQueues : e \in ueQueues'

C9_ExistingUeRejected == []ExistingRejected /\ [][UeContextsKept]_vars

\* a handler found the UeContext another handler had created, and returned
C9_Witness ==
    \E h \in Handlers :
        /\ ueH[h].existed
        /\ ueH[h].pc = "done"
        /\ \E e \in ueQueues : e.ran = ueH[h].ran /\ e.by # h

(***************************************************************************)
(* C10: AmfUeNgapIds come from a counter that starts at 1 and grows by 1   *)
(* per allocation; the ids of the UeContexts created are pairwise distinct *)
(* and increase in allocation order, also when allocations race and when   *)
(* an allocated id is discarded; no id is handed out twice.                *)
(***************************************************************************)
C10_AmfUeIdMonotonic ==
    /\ ueCounter = CounterNew + Len(ueAlloc)
    /\ \A i \in 1..Len(ueAlloc) : ueAlloc[i].id = CounterNew + (i - 1)
    /\ \A i, j \in 1..Len(ueAlloc) : i < j => ueAlloc[i].id < ueAlloc[j].id
    /\ \A e1, e2 \in ueQueues : e1.amf = e2.amf => e1 = e2
    /\ \A e \in ueQueues : \E i \in 1..Len(ueAlloc) :
          ueAlloc[i] = [by |-> e.by, id |-> e.amf]

\* two allocations raced for one ran_ue_ngap_id, the id of the one whose
\* add_context came second was discarded, and a later UeContext got the next id
C10_Witness ==
    \E h1, h2, h3 \in Handlers :
        /\ ueH[h1].pc = "panicked" /\ ueH[h1].amf = 2 /\ ~Winner(h1)
        /\ Winner(h2) /\ ueH[h2].amf = 1 /\ ueH[h2].ran = ueH[h1].ran
        /\ Winner(h3) /\ ueH[h3].amf = 3

(***************************************************************************)
(* C11: no two registered Tnlas share a (local, remote) pair; an add for a *)
(* registered pair returns AssociationAlreadyExists and changes neither    *)
(* the pair set nor the id-indexed map; after any adds and removes the     *)
(* pair set is the set of the pairs of the Tnlas in the map.               *)
(***************************************************************************)
C11_AssociationUniqueness ==
    /\ \A t1, t2 \in asMap : TnlaPair(t1) = TnlaPair(t2) => t1 = t2
    /\ \A t1, t2 \in asMap : t1.id = t2.id => t1 = t2
    /\ asSet = {TnlaPair(t) : t \in asMap}
    /\ (asLast.op = "add" /\ asLast.pair \in {TnlaPair(t) : t \in asLast.map0}) =>
          /\ asLast.ret = "AssociationAlreadyExists"
          /\ asMap = asLast.map0
          /\ asSet = asLast.set0

\* an add was rejected for a pair that had been registered, removed and
\* registered again
C11_Witness ==
    /\ asLast.op = "add"
    /\ asLast.ret = "AssociationAlreadyExists"
    /\ \E t \in asMap : TnlaPair(t) = asLast.pair /\ t.id > 1 /\ t.id < asLast.id - 1

(***************************************************************************)
(* C12: over any sequence of calls contains_context reflects the net       *)
(* effect of the calls, and add_context of a context whose id is present   *)
(* fails with ContextAlreadyExists, hands the context back, and leaves the *)
(* stored context and its queue untouched.                                 *)
(***************************************************************************)
C12_AddContextContract ==
    \A t \in CmCallers :
        /\ (cmT[t].op = "contains_context" /\ cmT[t].pc = "done") =>
              (cmT[t].ret = "true" <=> cmT[t].map0[cmT[t].a] # 0)
        /\ (cmT[t].op = "add_context" /\ cmT[t].map0[cmT[t].a] = 0) =>
              /\ cmT[t].ret = "Ok"
              /\ cmT[t].after[cmT[t].a] = cmT[t].q
        /\ (cmT[t].op = "add_context" /\ cmT[t].map0[cmT[t].a] # 0) =>
              /\ cmT[t].ret = "ContextAlreadyExists"
              /\ cmT[t].after = cmT[t].map0

(***************************************************************************)
(* C13: change_id(old, new) with new present returns NewIdAlreadyExists,   *)
(* and afterwards the context is under old again with the same queue, its  *)
(* pending closures intact, and the entry under new is unchanged; with old *)
(* absent it returns OldIdNotFound and changes nothing.                    *)
(***************************************************************************)
ChangeIdReturned(t) == cmT[t].op = "change_id" /\ cmT[t].pc = "done"

OldAbsentUnchanged(t) ==
    cmT[t].map0[cmT[t].a] = 0 =>
        /\ cmT[t].ret = "OldIdNotFound"
        /\ cmT[t].after = cmT[t].map0

NewPresentRestored(t) ==
    /\ cmT[t].ret = "NewIdAlreadyExists"
    /\ cmT[t].after = cmT[t].map0
    /\ cmT[t].after[cmT[t].a] = cmT[t].q
    /\ cmT[t].pend1 = cmT[t].pend0

\* for every old and new, new = old included
C13_ChangeIdConflict ==
    \A t \in CmCallers :
        ChangeIdReturned(t) =>
            /\ OldAbsentUnchanged(t)
            /\ (cmT[t].map0[cmT[t].a] # 0 /\ cmT[t].map0[cmT[t].b] # 0) =>
                  NewPresentRestored(t)

\* what change_id does when no other call on the manager overlaps it
\* (SpecCmSeq): for new other than old the conflict is reported and the entry
\* put back; with new = old the call succeeds
C13_ChangeIdConflictOtherId ==
    \A t \in CmCallers :
        ChangeIdReturned(t) =>
            /\ OldAbsentUnchanged(t)
            /\ (/\ cmT[t].map0[cmT[t].a] # 0
                /\ cmT[t].map0[cmT[t].b] # 0
                /\ cmT[t].a # cmT[t].b) => NewPresentRestored(t)
            /\ (cmT[t].map0[cmT[t].a] # 0 /\ cmT[t].a = cmT[t].b) =>
                  /\ cmT[t].ret = "Ok"
                  /\ cmT[t].after = cmT[t].map0

\* a change_id onto a taken id returned while a closure was pending on the
\* queue of the context it put back
C13_Witness ==
    \E t \in CmCallers :
        /\ ChangeIdReturned(t)
        /\ cmT[t].ret = "NewIdAlreadyExists"
        /\ cmT[t].a # cmT[t].b
        /\ cmT[t].after[cmT[t].a] = cmT[t].q
        /\ cmT[t].pend1 > 0

(***************************************************************************)
(* C14: change_id is atomic for concurrent operations on the manager: no   *)
(* contains_context or with_context sees the context under neither old nor *)
(* new, and no context is lost from the map, also when a failing change_id *)
(* races with an add_context(old).                                         *)
(***************************************************************************)
\* the ContextQueues that add_context stored
CmStored == 1..(cmNextQ - 1)

NoneMissed == \A t \in CmCallers : ~cmT[t].missed

NoneLost ==
    (\A t \in CmCallers : ~ChangeInProgress(t)) =>
        \A q \in CmStored : \E id \in CmIds : cmMap[id] = q

C14_ChangeIdAtomic == NoneMissed /\ NoneLost

(***************************************************************************)
(* C15: NG setup is attempted at most INITIALIZATION_RETRIES times per     *)
(* association and each attempt reads one PDU; a failed NgSetupRequest is  *)
(* answered with NgSetupFailure and the setup is retried; after the last   *)
(* failed attempt no GnbContext is registered for the association and no   *)
(* further PDU is read from it.                                            *)
(***************************************************************************)
SetupGaveUp(a) == ngA[a].pc = "returned" /\ ~ngA[a].setupOk

C15_BoundedSetupAttempts ==
    \A a \in Assocs :
        /\ ngA[a].attempt <= INITIALIZATION_RETRIES
        /\ ngA[a].reads <= ngA[a].attempt
        /\ ngA[a].pc \in {"check", "tai", "write"} => ngA[a].reads = ngA[a].attempt
        /\ (/\ ngA[a].pc = "write"
            /\ ngA[a].req.kind = "NgSetupRequest"
            /\ ~ngA[a].ok) => ngA[a].resp \in {SemanticFailurePdu, UnknownPlmnFailurePdu}
        /\ (/\ ngA[a].pc = "read"
            /\ ngA[a].attempt > 1) => ~ngA[a].setupOk /\ ngA[a].reads = ngA[a].attempt - 1
        /\ SetupGaveUp(a) =>
              /\ ngA[a].attempt = INITIALIZATION_RETRIES
              /\ ngA[a].reads = INITIALIZATION_RETRIES
              /\ ngReader[a] = "off"
              /\ ngRouted[a] = 0
              /\ \A e \in ngGnbs : e.tnla # a

\* an association whose NgSetupRequests all failed, the last one answered with
\* an NgSetupFailure, has given up
C15_Witness ==
    \E a \in Assocs :
        /\ SetupGaveUp(a)
        /\ ngA[a].req.kind = "NgSetupRequest"
        /\ ngA[a].abortAt = 0
        /\ LastWritten(a) = UnknownPlmnFailurePdu

(***************************************************************************)
(* C16: during NG setup a PDU that is not an NgSetupRequest, a PDU that    *)
(* does not decode, or a read returning None aborts the setup: the reply   *)
(* is ErrorIndication(MessageNotCompatibleWithReceiverState), the          *)
(* synthesized error indication, or nothing, and no further NG setup       *)
(* attempt is made on the association.                                     *)
(***************************************************************************)
C16_AbortOnUnexpectedPdu ==
    \A a \in Assocs :
        /\ (ngA[a].pc = "write" /\ ngA[a].req.kind = "other") => ngA[a].resp = NotCompatiblePdu
        /\ (ngA[a].pc = "write" /\ ngA[a].req.kind = "undecodable") => ngA[a].resp = DecodeErrorPdu
        /\ ngA[a].req.kind = "closed" => ngA[a].resp = NoPdu
        /\ ngA[a].abortAt # 0 =>
              /\ ngA[a].attempt = ngA[a].abortAt
              /\ ngA[a].pc \in {"write", "returned"}
              /\ ~ngA[a].setupOk

(***************************************************************************)
(* C17: after an established association is closed, by the peer or by      *)
(* cancellation, its GnbContext is eventually removed from the gNB map, so *)
(* that a later association with the same GlobalRanNodeId can complete NG  *)
(* setup again.                                                            *)
(***************************************************************************)
AssocClosed(a) ==
    \/ ngReader[a] = "ended"
    \/ ngCancelled /\ ngReader[a] = "reading"

GnbRegistered(a) == \E e \in ngGnbs : e.tnla = a

C17_TeardownOnClose == \A a \in Assocs : AssocClosed(a) ~> ~GnbRegistered(a)

(***************************************************************************)
(* C18: after the first InitialUeMessage of a gNB, carrying a              *)
(* RegistrationRequest with a SUCI and a UE security capability, has been  *)
(* handled, the gNB holds a UeContext for its ran_ue_ngap_id with          *)
(* amf_ue_ngap_id 1 and that SUCI in GMM state unauthenticated, and the    *)
(* handler has returned the empty success response.                        *)
(***************************************************************************)
FirstRegistration(h) ==
    /\ Finished(h)
    /\ ueH[h].nas = "gmm"
    /\ Len(ueAlloc) >= 1
    /\ ueAlloc[1].by = h

C18_FirstRegistrationHandled ==
    \A h \in Handlers :
        FirstRegistration(h) =>
            /\ ueH[h].ret = "Ok"
            /\ ueH[h].resp = NoPdu
            /\ \E e \in ueQueues :
                  /\ e.ran = ueH[h].ran
                  /\ e.amf = 1
                  /\ e.suci = "suci"
                  /\ e.gmm = "unauthenticated"

(***************************************************************************)
(* C19: a get(key) that observes the key Updating eventually returns once  *)
(* the set in flight publishes its result, also when the set publishes and *)
(* notifies between the read of the state and the start of the wait.       *)
(***************************************************************************)
ObservedUpdating(g) == tsGet[g].pc \in {"notified", "waiting"}

C19_WaitingGetReturns ==
    \A g \in Getters : ObservedUpdating(g) ~> (tsGet[g].pc \in {"read", "returned"})

(***************************************************************************)
(* C20: when the future passed to set fails, set returns InnerFutureError, *)
(* the key's state becomes Failed and the waiters are notified; a get that *)
(* reads the key while it is Failed returns ReadError, not a value or None.*)
(***************************************************************************)
SetFailed(s) == tsSet[s].pc \in {"notify", "returned"} /\ tsSet[s].ret # "UpdateAlreadyInProgress" /\ tsSet[s].res = 0

FailurePublished ==
    \A s \in Setters :
        SetFailed(s) =>
            /\ tsSet[s].pc = "returned" => tsSet[s].ret = "InnerFutureError"
            /\ tsMap[tsSet[s].key].id = tsSet[s].id => tsMap[tsSet[s].key].kind = "Failed"
            /\ \A g \in Getters :
                  (tsGet[g].pc = "returned" /\ tsGet[g].retId = tsSet[s].id) =>
                      tsGet[g].ret = "ReadError"

WaitersNotified ==
    \A s \in Setters :
        (tsSet[s].pc = "notify" /\ tsSet'[s].pc = "returned") =>
            \A g \in Getters : Waiting(tsGet[g], tsSet[s].id) => tsGet'[g].woken

C20_FailedSetReadError == []FailurePublished /\ [][WaitersNotified]_vars

\* a get was woken by a set whose future failed and returned ReadError, and so
\* did a get that started after that set had returned
C20_Witness ==
    \E s \in Setters, g1, g2 \in Getters :
        /\ tsSet[s].pc = "returned" /\ tsSet[s].ret = "InnerFutureError"
        /\ g1 # g2
        /\ tsGet[g1].pc = "returned" /\ tsGet[g1].round = 2
        /\ tsGet[g1].ret = "ReadError" /\ tsGet[g1].retId = tsSet[s].id
        /\ tsGet[g2].pc = "returned" /\ tsGet[g2].round = 1
        /\ tsGet[g2].ret = "ReadError" /\ tsGet[g2].retId = tsSet[s].id

(***************************************************************************)
(* C21: a set(key, future) that finds the key Updating returns             *)
(* UpdateAlreadyInProgress with the id of the update in flight, never      *)
(* polls its own future, and leaves the stored state and the waiting       *)
(* readers as they were.                                                   *)
(***************************************************************************)
FindsUpdating(s) ==
    /\ tsSet[s].pc = "check"
    /\ IsUpdating(tsMap[tsSet[s].key])
    /\ tsSet'[s] # tsSet[s]

FailsFast(s) ==
    /\ tsSet'[s] = [tsSet[s] EXCEPT !.pc = "returned",
                                    !.ret = "UpdateAlreadyInProgress",
                                    !.retId = tsMap[tsSet[s].key].id]
    /\ tsMap' = tsMap
    /\ tsGet' = tsGet

\* a call that has returned takes no further step: its future is never polled
ReturnedIsFinal(s) == tsSet[s].pc = "returned" => tsSet'[s] = tsSet[s]

C21_UpdateInProgressFailsFast ==
    [][\A s \in Setters : (FindsUpdating(s) => FailsFast(s)) /\ ReturnedIsFinal(s)]_vars

\* a set gave up on a key that another set was updating, while a get was
\* waiting for that update, and the update is still in flight
C21_Witness ==
    \E s, t \in Setters, g \in Getters :
        /\ s # t
        /\ tsSet[s].pc = "returned" /\ tsSet[s].ret = "UpdateAlreadyInProgress"
        /\ tsSet[t].pc = "await" /\ tsSet[t].key = tsSet[s].key
        /\ tsSet[s].retId = tsSet[t].id
        /\ tsMap[tsSet[s].key] = NewUpdating(tsSet[t].id)
        /\ Waiting(tsGet[g], tsSet[t].id)

(***************************************************************************)
(* C22: get(key) makes at most 10 wait-then-reread cycles; it returns      *)
(* Ok(None) for a key that is being updated only when, after the 10th      *)
(* cycle, the key is still found Updating, never after fewer cycles.       *)
(***************************************************************************)
\* the waits get has completed: every round reads once and then waits once
CyclesDone(g) == tsGet[g].round

\* get leaves the loop: the call returns from a wait without another read
GivesUp(g) == tsGet[g].pc = "waiting" /\ tsGet'[g].pc = "returned"

C22_GetBounded ==
    /\ [](\A g \in Getters : CyclesDone(g) <= 10)
    /\ [][\A g \in Getters :
             GivesUp(g) => /\ tsGet'[g].ret = "None"
                           /\ CyclesDone(g) = 10
                           /\ IsUpdating(tsMap[tsGet[g].key])]_vars

(***************************************************************************)
(* C23: when the task awaiting schedule_and_wait is dropped after its      *)
(* closure was appended to the queue, the closure still runs exactly once  *)
(* in its FIFO position, its result is discarded, and the closures         *)
(* appended after it still run and deliver their results.                  *)
(***************************************************************************)
Dropped(c) == cqPc[c] = "dropped"

RunsOnceInOrder ==
    /\ IsPrefix(cqInner, cqOrder)
    /\ \A i, j \in 1..Len(cqInner) : i # j => cqInner[i] # cqInner[j]

ResultDiscarded ==
    \A c \in Callers :
        Dropped(c) => /\ Len(cqRet[c]) = cqN[c]
                      /\ \A i \in 1..Len(cqRet[c]) : cqRet[c][i][1] # CurrentCall(c)

C23_DroppedCallStillRuns ==
    /\ []RunsOnceInOrder
    /\ []ResultDiscarded
    /\ \A call \in Calls :
          ReceiverDropped(call) ~>
              (cqCall[call] = "done" /\ \E i \in 1..Len(cqInner) : cqInner[i] = call)
    /\ \A call \in Calls : (cqCall[call] = "queued") ~> (cqCall[call] = "done")
    /\ \A c \in Callers : (cqPc[c] = "rx") ~> (cqPc[c] \in {"idle", "dropped"})

\* a task was dropped before its closure ran; the closure has run and its
\* output went nowhere, and a closure appended behind it has run and its
\* caller has the result
C23_Witness ==
    \E c, d \in Callers :
        /\ c # d
        /\ Dropped(c)
        /\ cqCall[CurrentCall(c)] = "done"
        /\ cqOut[CurrentCall(c)] # NoOut
        /\ cqRes[CurrentCall(c)] = NoOut
        /\ \E i \in 1..Len(cqRet[d]) :
              cqRet[d][i][2] > cqOut[CurrentCall(c)][2]

(***************************************************************************)
(* C24: at most one processor task exists per queue at any moment: a push  *)
(* spawns a processor only when none is active, processor_active is true   *)
(* exactly while a processor is spawned or running, and no task is spawned *)
(* by a call made while a processor is active.                             *)
(***************************************************************************)
Processors == {p \in Procs : cqProc[p] # "off"}

Spawned(p) == cqProc[p] = "off" /\ cqProc'[p] # "off"

SpawnOnlyWhenNone ==
    \A p \in Procs : Spawned(p) => (~cqActive /\ Processors = {})

NoSpawnWhileActive ==
    \A c \in Callers :
        (cqPc[c] = "flag" /\ cqPc'[c] = "rx" /\ cqActive) => cqProc' = cqProc

C24_SingleProcessor ==
    /\ [](Cardinality(Processors) <= 1)
    /\ [](cqActive <=> Processors # {})
    /\ [][SpawnOnlyWhenNone /\ NoSpawnWhileActive]_vars

\* a call was pushed while the processor was busy with an earlier closure and
\* spawned nothing: one processor, one closure in flight, one waiting
C24_Witness ==
    /\ cqActive
    /\ Cardinality(Processors) = 1
    /\ \E p \in Processors : cqProc[p] = "await"
    /\ \E c \in Callers :
          /\ cqPc[c] = "rx"
          /\ cqCall[CurrentCall(c)] = "queued"
          /\ cqQueue = <<CurrentCall(c)>>

(***************************************************************************)
(* C25: once the root cancellation token is cancelled, run accepts no      *)
(* further association, and it eventually leaves the accept loop, calls    *)
(* the graceful-shutdown hook and returns, also while connections keep     *)
(* arriving at the listener.                                               *)
(***************************************************************************)
Accepted(a) == ngA[a].pc = "new" /\ ngA'[a].pc # "new"

NoAcceptAfterCancel == ngCancelled => \A a \in Assocs : ~Accepted(a)

C25_StopsAcceptingOnCancel ==
    /\ [][NoAcceptAfterCancel]_vars
    /\ ngCancelled ~> (ngRun = "shutdown")
    /\ ngCancelled ~> (ngRun = "returned")

(***************************************************************************)
(* C26: register_nf_instance publishes heartbeat timer, OAuth flag and     *)
(* instance id together as one NfConfig, and only for a 200 or 201         *)
(* response: the id is the final path segment of Location on 201 and the   *)
(* requested id on 200.  On every error (problem-details status,           *)
(* unexpected status, Location without '/' giving LocationParseError,      *)
(* final segment that is no UUID giving InvalidLocationSent) the NfConfig  *)
(* is left as it was.                                                      *)
(***************************************************************************)
HasSlash(loc) == \E i \in 1..Len(loc) : loc[i] = "/"

\* the text behind the last '/'
FinalSegment(loc) ==
    CHOOSE s \in Locations :
        /\ ~HasSlash(s)
        /\ \E head \in Locations : loc = head \o <<"/">> \o s

RegisterReturns == nrCall.pc = "sent" /\ nrCall'.pc = "returned"

ExpectedResult(resp) ==
    CASE resp.status = "none" -> "GenericClientError"
      [] resp.status = "200" -> "Ok"
      [] resp.status \in {"problem", "other"} -> "InvalidResponse"
      [] ~HasSlash(resp.location) -> "LocationParseError"
      [] FinalSegment(resp.location) \notin {<<u>> : u \in Uuids} -> "InvalidLocationSent"
      [] OTHER -> "Ok"

ExpectedConfig(resp, requested) ==
    [heartbeat_timer |-> IF 10 \in resp.body.heart_beat_timer THEN 10 ELSE 0,
     oauth_enabled |-> resp.body.oauth2 = "true",
     nf_instance_id |-> IF resp.status = "200" THEN requested
                        ELSE FinalSegment(resp.location)[1]]

PublishesOnSuccessOnly ==
    IF RegisterReturns
    THEN /\ nrCall'.ret = ExpectedResult(nrCall'.resp)
         /\ nrCall'.ret = "Ok" =>
               nrConfig' = ExpectedConfig(nrCall'.resp, nrCall.nf_instance_id)
         /\ nrCall'.ret # "Ok" => nrConfig' = nrConfig
    ELSE nrConfig' = nrConfig

C26_RegisterPublishesOnSuccess == [][PublishesOnSuccessOnly]_vars

\* a call published an id together with the timer and the OAuth flag, and a
\* later call that failed on the final segment of its Location left that
\* NfConfig in place
C26_Witness ==
    /\ nrCall.n = 2
    /\ nrCall.pc = "returned"
    /\ nrCall.ret = "InvalidLocationSent"
    /\ nrCall.nf_instance_id = "U1"
    /\ nrConfig = [heartbeat_timer |-> 10, nf_instance_id |-> "U2",
                   oauth_enabled |-> TRUE]

(***************************************************************************)
(* C27: in a run of NfApp that is past initialization, start is invoked    *)
(* only after register_nf has succeeded (a failed registration aborts      *)
(* start); deregister_nf is invoked exactly once, after the register/start *)
(* sequence has returned or the termination signal has arrived; a failing  *)
(* deregistration is reported in the result and never keeps run from       *)
(* returning.                                                              *)
(***************************************************************************)
Invocations(m) == {i \in 1..Len(appLog) : appLog[i] = m}

StartAfterRegistration ==
    /\ \A i \in Invocations("start") :
          /\ appBlock.registered = "Ok"
          /\ \E j \in Invocations("register_nf") : j < i
    /\ appBlock.registered = "Err" => Invocations("start") = {}

DeregisteredOnce ==
    /\ Cardinality(Invocations("deregister_nf")) <= 1
    /\ Invocations("deregister_nf") # {} =>
          (appBlock.pc = "done" \/ appSignal.pc # "waiting")
    /\ (appRun.pc = "returned" /\ appRun.ret # "InitializationFailedError") =>
          Cardinality(Invocations("deregister_nf")) = 1
    /\ appRun.pc \in {"initialize", "select"} => Invocations("deregister_nf") = {}

DeregistrationFailureReported ==
    (appRun.pc = "returned" /\ appRun.dreg = "Err") =>
        appRun.ret \in {"ShutdownDeregistrationFailedError",
                        "RuntimeWithDeregistrationError"}

C27_RegisterStartDeregister ==
    /\ []StartAfterRegistration
    /\ []DeregisteredOnce
    /\ []DeregistrationFailureReported
    /\ (appBlock.pc = "done" \/ appSignal.pc # "waiting") ~> (appRun.pc = "returned")

\* registration failed, start was never invoked, the one deregistration
\* failed as well and run returned both errors
C27_Witness ==
    /\ appRun.pc = "returned"
    /\ appRun.ret = "RuntimeWithDeregistrationError"
    /\ appLog = <<"register_nf", "deregister_nf">>

(***************************************************************************)
(* C28: the PLMN, TAC and SNSSAI conversions are inverse: for every valid  *)
(* MCC with MNC of 2 or 3 digits, every valid SBI TAC string and every     *)
(* SNSSAI (SST alone, SST with SD), the SBI value converted to NGAP and    *)
(* back is the original value; 234/15 encodes to [0x32, 0xF4, 0x51] and    *)
(* "123456" to [0x12, 0x34, 0x56].                                         *)
(***************************************************************************)
RoundTrip == cvPc = "decoded" => cvOut = cvIn

Examples ==
    /\ convert_mcc_mnc_to_plmn_id(<<"2", "3", "4">>, <<"1", "5">>) = <<50, 244, 81>>
    /\ convert_sbi_tac_to_ngap_tac(<<"1", "2", "3", "4", "5", "6">>) = <<18, 52, 86>>

C28_ConversionsInverse == RoundTrip /\ Examples

(***************************************************************************)
(* C29: for every message read on an established association at most one  *)
(* PDU is written back, on the same Tnla: the synthesized error indication *)
(* when decoding fails, ErrorIndication(Protocol/SemanticError) for a PDU  *)
(* that is not an InitialUeMessage initiating message, and for an          *)
(* InitialUeMessage the handler's PDU or nothing.  In every case, a        *)
(* failing handler included, the reader goes on with the next message.     *)
(***************************************************************************)
Written(m) == {i \in 1..Len(rdWire) : rdWire[i].msg = m}

ExpectedPdu(task) ==
    CASE task.kind = "undecodable" -> "ErrorIndication/Protocol/AbstractSyntaxErrorFalselyConstructedMessage"
      [] task.kind = "other" -> "ErrorIndication/Protocol/SemanticError"
      [] OTHER -> "none"

OneAnswerPerMessage ==
    \A m \in Messages :
        /\ Cardinality(Written(m)) <= 1
        /\ \A i \in Written(m) :
              /\ rdWire[i].tnla = GnbTnla
              /\ rdWire[i].pdu = ExpectedPdu(rdTask[m])
              /\ rdWire[i].pdu # "none"
        /\ (rdTask[m].pc = "done" /\ ExpectedPdu(rdTask[m]) # "none"
               /\ rdTask[m].wrote # "Err") => Written(m) # {}

ReaderGoesOn ==
    \A m \in Messages :
        (rdTask[m].pc # "none" /\ rdTask'[m] # rdTask[m]) =>
            /\ rdReader' = rdReader
            /\ rdRead' = rdRead

C29_OneAnswerReaderContinues == []OneAnswerPerMessage /\ [][ReaderGoesOn]_vars

\* the handler of the first message panicked and the second did not decode;
\* the third was read all the same and got its error indication
C29_Witness ==
    /\ rdTask[1].pc = "panicked"
    /\ rdTask[2].kind = "undecodable" /\ rdTask[2].wrote = "Err"
    /\ rdTask[3].kind = "other"
    /\ rdWire = <<[tnla |-> GnbTnla, msg |-> 3, pdu |-> SemanticErrorPdu]>>

(***************************************************************************)
(* C30: when two associations run NG setup concurrently with the same      *)
(* GlobalRanNodeId, at most one of them is answered with NgSetupResponse,  *)
(* and the insertion into the gNB map that follows a successful NG setup   *)
(* never fails: the unwrap in start_ngap_processing does not panic.        *)
(***************************************************************************)
SetupAnswered(a) ==
    /\ ngA[a].setupOk
    /\ \E i \in 1..Len(ngWire[a]) : ngWire[a][i] = NgSetupResponsePdu

OneResponsePerId ==
    \A a, b \in Assocs :
        (a # b /\ SetupAnswered(a) /\ SetupAnswered(b)) => ngA[a].gnb.id # ngA[b].gnb.id

InsertNeverFails == \A a \in Assocs : ngA[a].pc # "panicked"

C30_ConcurrentSetupOneWinner == OneResponsePerId /\ InsertNeverFails

(***************************************************************************)
(* C31: concurrent get_token callers for one service never fail because of *)
(* each other: none of them gets UpdateAlreadyInProgress, and while no     *)
(* token is cached only one access-token request is issued.                *)
(***************************************************************************)
\* the callers whose set reached the supplied future: an access-token request
RequestsInFlight == {t \in TokenCallers : tsSet[t].pc \in {"await", "publish"}}

NoneRefused ==
    \A t \in TokenCallers : GetTokenResult(t) # "UpdateAlreadyInProgress"

OneRequestWhileUncached == Cardinality(RequestsInFlight) <= 1

C31_ConcurrentGetToken == NoneRefused /\ OneRequestWhileUncached

(***************************************************************************)
(* C32: in GMM state deregistered a RegistrationRequest that carries no UE *)
(* security capability is a handled failure: the state stays deregistered, *)
(* no AuthenticationRequest is built, and the state machine goes on with   *)
(* the later messages of the UE.                                           *)
(***************************************************************************)
WithoutCapability(event) == event.kind = "RegistrationRequest" /\ ~event.capability

HandledFailure ==
    (gmN' = gmN + 1 /\ WithoutCapability(gmLast'.event)) =>
        /\ gmLast'.response = "Handled"
        /\ gmState' = "deregistered"
        /\ gmBuilt' = gmBuilt
        /\ gmRun' = "running"

C32_MissingCapabilityHandled == [][HandledFailure]_vars

\* the part of C32 that the handler implements: initial registration with an
\* identity other than EUI-64
ImplementedHandledFailure ==
    (/\ gmN' = gmN + 1
     /\ WithoutCapability(gmLast'.event)
     /\ TypeImplemented(gmLast'.event.type)
     /\ IdentityImplemented(gmLast'.event.identity)) =>
        /\ gmLast'.response = "Handled"
        /\ gmState' = "deregistered"
        /\ gmBuilt' = gmBuilt
        /\ gmRun' = "running"

MissingCapabilityOfInitialRegistration == [][ImplementedHandledFailure]_vars

(***************************************************************************)
(* C33: resolve_ran_name returns the first value present in the order      *)
(* extended UTF-8 name, extended visible-string name, ran_node_name, and   *)
(* the empty string only when none of the three is present.                *)
(***************************************************************************)
FirstPresent(ran, ext) ==
    CASE ext.ran_node_name_utf8_string # NoName -> ext.ran_node_name_utf8_string
      [] ext.ran_node_name_visible_string # NoName -> ext.ran_node_name_visible_string
      [] ran # NoName -> ran
      [] OTHER -> EmptyString

C33_RanNamePrecedence ==
    rnN > 0 =>
        rnCall.name = FirstPresent(rnCall.ran_node_name, rnCall.extended_ran_node_name)

(***************************************************************************)
(* C34: one NG setup handling uses a single configuration snapshot: the    *)
(* support_tai_list of the TAI check and the amf_name, served_guami_list   *)
(* and plmn_support_list of the NgSetupResponse come from the same         *)
(* snapshot, also when commit_config runs concurrently.                    *)
(***************************************************************************)
C34_SetupSingleSnapshot ==
    snH.pc = "Success" =>
        \A i, j \in 1..Len(SetupFields) : snH.loaded[i] = snH.loaded[j]

(***************************************************************************)
(* C35: a schedule_and_wait on the same queue, issued and awaited inside a *)
(* running closure, never completes, because the queue lock and the write  *)
(* lock on the context are held for the whole execution of the running     *)
(* closure; calls on other queues are not blocked by it.                   *)
(***************************************************************************)
Reentered == rqTarget = RqQueueOf("outer")

NestedNeverCompletes ==
    Reentered =>
        /\ rqCaller["inner"] # "returned"
        /\ rqFut["inner"] = "new"
        /\ rqFut["outer"] # "done"

LocksHeldWhileRunning ==
    \A c \in RqCalls :
        rqFut[c] = "running" =>
            /\ rqMutex[RqQueueOf(c)] = "proc"
            /\ rqWrite[RqQueueOf(c)] = c

OtherQueuesGoOn ==
    /\ (rqCaller["other"] # "idle") ~> (rqCaller["other"] = "returned")
    /\ (rqTarget = 2) ~> (rqCaller["outer"] = "returned")

C35_NoReentry ==
    /\ []NestedNeverCompletes
    /\ []LocksHeldWhileRunning
    /\ OtherQueuesGoOn

\* the closure of "outer" waits for queue 1's lock behind its own processor,
\* and the call on queue 2 has returned
C35_Witness ==
    /\ Reentered
    /\ rqFut["outer"] = "running"
    /\ rqMutex[1] = "proc"
    /\ rqWait[1] = <<"inner">>
    /\ rqCaller["other"] = "returned"
    /\ rqProc[2] = "off"

(***************************************************************************)
(* C36: a read of an AtomicReader running concurrently with a replace      *)
(* returns the complete old or the complete new value, neither operation   *)
(* panics or touches a released value, and a read that starts after the    *)
(* replace has finished returns the new value.                             *)
(***************************************************************************)
ReadsOldOrNew ==
    \A r \in ArReaders :
        arR[r].pc = "returned" => arR[r].ret \in {OldValue, NewValue}

NoPanicNoUseAfterFree ==
    \A r \in ArReaders : arR[r].pc \notin {"panicked", "crashed"} /\ ~arR[r].ub

ReadAfterReplaceIsNew ==
    \A r \in ArReaders :
        (arR[r].pc = "returned" /\ arR[r].after) => arR[r].ret = NewValue

C36_ReadDuringReplace ==
    ReadsOldOrNew /\ NoPanicNoUseAfterFree /\ ReadAfterReplaceIsNew

(***************************************************************************)
(* C37: a closure that panics on a ContextQueue does not disable the       *)
(* queue: closures scheduled afterwards are still executed and their       *)
(* callers receive results; the processor flag does not stay set with no   *)
(* processor running.                                                      *)
(***************************************************************************)
FlagHasProcessor == cqActive => \E p \in Procs : cqProc[p] # "off"

LaterCallsReturn ==
    \A c \in Callers : (cqPc[c] = "rx") ~> (cqPc[c] \in {"idle", "panicked"})

C37_PanicKeepsQueueAlive == []FlagHasProcessor /\ LaterCallsReturn

(***************************************************************************)
(* C38: commit_config updates are not lost: when two commit_config calls   *)
(* with update functions f and g that ran concurrently have both returned, *)
(* the published snapshot reflects the assignments of both.                *)
(***************************************************************************)
C38_NoLostCommit ==
    (\A w \in Committers : ccW[w].pc = "idle") =>
        /\ ccStore.nf_id = ccW["f"].n
        /\ ccStore.name = ccW["g"].n

(***************************************************************************)
(* C39: a key never stays Updating for ever: every Updating state that set *)
(* published is eventually replaced by Ready or Failed and its waiters are *)
(* notified, also when the task awaiting set is dropped while the supplied *)
(* future is pending.                                                      *)
(***************************************************************************)
UpdatingReplaced ==
    \A k \in Keys :
        (tsMap[k].kind = "Updating") ~> (tsMap[k].kind \in {"Ready", "Failed"})

WaitersWoken ==
    \A g \in Getters :
        (tsGet[g].pc = "waiting" /\ tsMap[tsGet[g].key] = NewUpdating(tsGet[g].notify))
            ~> (tsGet[g].pc # "waiting")

C39_UpdatingEnds == UpdatingReplaced /\ WaitersWoken

(***************************************************************************)
(* C40: a failed token acquisition is permanent for get_token: once the    *)
(* update for a service has ended in Failed, every later get_token for it  *)
(* returns the store's ReadError without a new access-token request, and   *)
(* a deregistration with OAuth enabled sends no DELETE; nothing but a      *)
(* direct TokenStore::set on the key leaves the Failed state.              *)
(***************************************************************************)
\* the callers of get_token never leave Failed (they are the only users of
\* the store here)
FailedStays ==
    tsMap[ServiceKey].kind = "Failed" => tsMap'[ServiceKey].kind = "Failed"

\* a get_token whose get found the key Failed returns ReadError and has not
\* called set
ReadErrorWithoutRequest ==
    \A t \in TokenCallers :
        (tsGet[t].pc = "returned" /\ tsGet[t].ret = "ReadError") =>
            /\ GetTokenResult(t) = "ReadError"
            /\ tsSet[t].pc = "idle"

\* a deregistration with oauth_enabled that began while the key was Failed
\* does not reach client.execute
NoDeleteAfterFailure ==
    (gtDereg.oauth /\ gtDereg.failedAtStart) => gtDereg.pc # "sent"

C40_FailedIsPermanent ==
    /\ [][FailedStays]_vars
    /\ []ReadErrorWithoutRequest
    /\ []NoDeleteAfterFailure

====
